---- MODULE Spec2Model ----
(***************************************************************************)
(* graphql-mcp-bridge: a GraphQL schema is compiled, per root operation,   *)
(* into an argument validator (zod), a selection validator (zod) with a    *)
(* default selection, and a tool whose execution renders a query string.   *)
(*                                                                         *)
(* JavaScript values are tagged records (one payload field per type of    *)
(* value), objects keep their entries in insertion order (Object.entries   *)
(* order), zod schemas are trees, and a rendered text is the sequence of   *)
(* its pieces (Flatten gives the string).  The property names of the       *)
(* callers' variables and selections are ordinary identifiers (no          *)
(* Object.prototype members); an operation name asked for can be one.      *)
(***************************************************************************)
EXTENDS Integers, Sequences, FiniteSets, TLC

VARIABLES
    typeSchemaCache,      \* generate-validation.ts: the module-level Map
    config,               \* the Config of the last schemaParser call
    operations,           \* extractOperationsFromSchema's result of that call
    validationSchemas,    \* generateValidationSchemas' result (name -> schema)
    outputSelectionSchemas, \* generateOutputSelectionSchemas' result
    tools,                \* the Tool[] schemaParser returned
    call                  \* the call in progress with its outcome, or NoCall

vars == <<typeSchemaCache, config, operations, validationSchemas,
          outputSelectionSchemas, tools, call>>

(***************************************************************************)
(* JavaScript values                                                       *)
(***************************************************************************)
JUndef == [t |-> "undefined"]
JNull == [t |-> "null"]
JBool(b) == [t |-> "boolean", b |-> b]
JStr(s) == [t |-> "string", s |-> s]
JInt(n) == [t |-> "number", n |-> <<n, 0>>]
JFloat(n, tenths) == [t |-> "number", n |-> <<n, tenths>>]
JArr(items) == [t |-> "array", a |-> items]
JObj(entries) == [t |-> "object", o |-> entries]
JTrue == JBool(TRUE)
JFalse == JBool(FALSE)
EmptyObj == JObj(<<>>)

Range(s) == {s[i] : i \in DOMAIN s}

\* Object.keys(o), in insertion order
ObjectKeys(obj) == [i \in DOMAIN obj.o |-> obj.o[i][1]]

\* key in o
HasKey(obj, key) == \E i \in DOMAIN obj.o : obj.o[i][1] = key

\* o[key]
GetProp(obj, key) ==
    IF HasKey(obj, key)
    THEN (obj.o[CHOOSE i \in DOMAIN obj.o : obj.o[i][1] = key])[2]
    ELSE JUndef

\* !value
Falsy(value) ==
    \/ value.t \in {"undefined", "null"}
    \/ value = JFalse
    \/ value = JStr("")
    \/ (value.t = "number" /\ value.n = <<0, 0>>)

\* zod's getParsedType
ParsedType(value) == value.t

(***************************************************************************)
(* The type graph (graphql-js): named types, NonNull and List wrappers     *)
(***************************************************************************)
Named(n) == [k |-> "named", name |-> n]
NonNull(ty) == [k |-> "nonnull", of |-> ty]
ListOf(ty) == [k |-> "list", of |-> ty]

Arg(n, ty) == [name |-> n, type |-> ty]
Field(n, ty, args, descr) ==
    [name |-> n, type |-> ty, args |-> args, description |-> descr]
TypeDef(kind, fields, values, members) ==
    [kind |-> kind, fields |-> fields, values |-> values, members |-> members]
ScalarDef == TypeDef("SCALAR", <<>>, <<>>, <<>>)

StringT == Named("String")
IntT == Named("Int")
BooleanT == Named("Boolean")
IDT == Named("ID")

\* The schema under test: the shapes of the repository's test schemas
\* (user/posts/comments with a required-argument field, a cycle User -> Post
\* -> User,
\* a self-referencing input type, two mutually recursive input types, enums,
\* a union, a list of lists), cut to a few fields.  Query and Subscription
\* both have a field user, with different arguments.
SchemaTypes ==
    [n \in {"String", "Int", "Float", "Boolean", "ID", "DateTime", "Status",
            "Single", "UserInput", "Filter", "UserRef", "TaskRef", "User",
            "Post", "Comment", "Dog", "Cat",
            "Pet", "Query", "Mutation", "Subscription"} |->
       CASE n \in {"String", "Int", "Float", "Boolean", "ID", "DateTime"} ->
              ScalarDef
         [] n = "Status" -> TypeDef("ENUM", <<>>, <<"DRAFT", "PUBLISHED">>, <<>>)
         [] n = "Single" -> TypeDef("ENUM", <<>>, <<"ONLY">>, <<>>)
         [] n = "UserInput" -> TypeDef("INPUT_OBJECT",
              << Field("username", NonNull(StringT), <<>>, <<>>),
                 Field("email", NonNull(StringT), <<>>, <<>>),
                 Field("age", IntT, <<>>, <<>>),
                 Field("role", Named("Status"), <<>>, <<>>) >>, <<>>, <<>>)
         [] n = "Filter" -> TypeDef("INPUT_OBJECT",
              << Field("status", Named("Status"), <<>>, <<>>),
                 Field("and", Named("Filter"), <<>>, <<>>),
                 Field("owner", Named("UserRef"), <<>>, <<>>),
                 Field("kind", Named("Single"), <<>>, <<>>) >>, <<>>, <<>>)
         [] n = "UserRef" -> TypeDef("INPUT_OBJECT",
              << Field("id", IDT, <<>>, <<>>),
                 Field("tasks", ListOf(Named("TaskRef")), <<>>, <<>>) >>,
              <<>>, <<>>)
         [] n = "TaskRef" -> TypeDef("INPUT_OBJECT",
              << Field("user", Named("UserRef"), <<>>, <<>>) >>, <<>>, <<>>)
         [] n = "User" -> TypeDef("OBJECT",
              << Field("id", NonNull(IDT), <<>>, <<>>),
                 Field("name", NonNull(StringT), <<>>, <<>>),
                 Field("role", Named("Status"), <<>>, <<>>),
                 Field("tags", NonNull(ListOf(NonNull(StringT))), <<>>, <<>>),
                 Field("posts", NonNull(ListOf(NonNull(Named("Post")))),
                       << Arg("status", NonNull(Named("Status"))) >>, <<>>),
                 Field("friends", ListOf(Named("User")),
                       << Arg("limit", IntT) >>, <<>>),
                 Field("hasPermission", NonNull(BooleanT),
                       << Arg("resource", NonNull(StringT)),
                          Arg("action", StringT) >>, <<>>),
                 Field("nick", StringT, << Arg("upper", BooleanT) >>, <<>>) >>,
              <<>>, <<>>)
         [] n = "Post" -> TypeDef("OBJECT",
              << Field("PostID", NonNull(IDT), <<>>, <<>>),
                 Field("title", NonNull(StringT), <<>>, <<>>),
                 Field("author", NonNull(Named("User")), <<>>, <<>>),
                 Field("isVisibleTo", NonNull(BooleanT),
                       << Arg("userId", NonNull(IDT)) >>, <<>>),
                 Field("comments", NonNull(ListOf(NonNull(Named("Comment")))),
                       <<>>, <<>>) >>, <<>>, <<>>)
         [] n = "Comment" -> TypeDef("OBJECT",
              << Field("text", NonNull(StringT), <<>>, <<>>) >>, <<>>, <<>>)
         [] n = "Dog" -> TypeDef("OBJECT",
              << Field("breed", StringT, <<>>, <<>>) >>, <<>>, <<>>)
         [] n = "Cat" -> TypeDef("OBJECT",
              << Field("lives", IntT, <<>>, <<>>) >>, <<>>, <<>>)
         [] n = "Pet" -> TypeDef("UNION", <<>>, <<>>, <<"Dog", "Cat">>)
         [] n = "Query" -> TypeDef("OBJECT",
              << Field("hello", StringT, <<>>, <<>>),
                 Field("user", Named("User"), << Arg("id", NonNull(IDT)) >>,
                       <<"Get", "a", "user">>),
                 Field("users", NonNull(ListOf(NonNull(Named("User")))), <<>>, <<>>),
                 Field("searchUsers", NonNull(ListOf(NonNull(Named("User")))),
                       << Arg("query", NonNull(StringT)), Arg("limit", IntT) >>, <<>>),
                 Field("getPosts", NonNull(Named("Post")),
                       << Arg("PostID", NonNull(IDT)) >>, <<>>),
                 Field("pet", Named("Pet"), <<>>, <<>>),
                 Field("status", NonNull(Named("Status")), <<>>, <<>>),
                 Field("secret", StringT, <<>>, <<"internal", "NO_MCP_TOOL">>) >>,
              <<>>, <<>>)
         [] n = "Mutation" -> TypeDef("OBJECT",
              << Field("createUser", NonNull(Named("User")),
                       << Arg("input", NonNull(Named("UserInput"))) >>, <<>>),
                 Field("add", IntT,
                       << Arg("a", NonNull(IntT)), Arg("b", NonNull(IntT)) >>, <<>>) >>,
              <<>>, <<>>)
         [] OTHER -> TypeDef("OBJECT",
              << Field("userAdded", Named("User"),
                       << Arg("filter", Named("Filter")) >>, <<>>),
                 Field("userGroups",
                       NonNull(ListOf(NonNull(ListOf(NonNull(Named("User")))))),
                       <<>>, <<>>),
                 Field("user", Named("User"),
                       << Arg("id", NonNull(IntT)), Arg("limit", IntT) >>,
                       <<>>) >>, <<>>, <<>>)]

\* graphql-js type predicates
isNonNullType(ty) == ty.k = "nonnull"
isListType(ty) == ty.k = "list"
KindOf(ty) == IF ty.k = "named" THEN SchemaTypes[ty.name].kind ELSE "WRAPPER"
isScalarType(ty) == KindOf(ty) = "SCALAR"
isEnumType(ty) == KindOf(ty) = "ENUM"
isInputObjectType(ty) == KindOf(ty) = "INPUT_OBJECT"
isObjectType(ty) == KindOf(ty) = "OBJECT"

\* the fields without the ones that declare a non-null argument
getFieldsWithoutRequiredArgs(ty) ==
    SelectSeq(SchemaTypes[ty.name].fields,
              LAMBDA f : \A i \in DOMAIN f.args : f.args[i].type.k # "nonnull")

\* type.getFields(), as Object.entries gives them
getFields(ty) == SchemaTypes[ty.name].fields
\* type.getValues().map(value => value.value)
getValues(ty) == SchemaTypes[ty.name].values

(***************************************************************************)
(* zod schemas (v3), as trees                                              *)
(***************************************************************************)
ZString == [z |-> "string"]
ZInt == [z |-> "int"]
ZNumber == [z |-> "number"]
ZBoolean == [z |-> "boolean"]
ZAny == [z |-> "any"]
ZEnum(values) == [z |-> "enum", vals |-> values]
ZLiteral(value) == [z |-> "literal", val |-> value]
ZArray(item) == [z |-> "array", item |-> item]
\* the object schema that takes unknown keys for an issue from the start
ZObjectStrict(shape) == [z |-> "object", shape |-> shape, strict |-> TRUE]

\* z.object(shape): unknown keys are stripped; .strict(): they are an issue
ZObject(shape) == [z |-> "object", shape |-> shape, strict |-> FALSE]
\* the object schema without .strict()
ZStripping(obj) == obj

\* z.object(shape).strict()
ZStrict(obj) == [obj EXCEPT !.strict = TRUE]
\* the schema without .optional()
ZRequired(inner) == inner

\* schema.optional()
ZOptional(inner) == [z |-> "optional", inner |-> inner]

\* record[key] = value on a Record<string, ...> kept in insertion order
SetEntry(entries, key, value) ==
    IF \E i \in DOMAIN entries : entries[i][1] = key
    THEN [i \in DOMAIN entries |->
            IF entries[i][1] = key THEN <<key, value>> ELSE entries[i]]
    ELSE Append(entries, <<key, value>>)

\* array.slice(0, n)
SliceTo(s, n) == SubSeq(s, 1, IF n < Len(s) THEN n ELSE Len(s))

\* options.x || d  (an unset option and 0 are both falsy)
OrDefault(x, d) == IF x = 0 THEN d ELSE x

\* a loop over a sequence runs its first iterations, then the rest
FirstHalf(s) == SubSeq(s, 1, Len(s) \div 2)
SecondHalf(s) == SubSeq(s, Len(s) \div 2 + 1, Len(s))

\* statements run in order: a call has returned its one result r before
\* the statements that use it run.  The result of the statements is written
\* CHOOSE out \in {statements : r \in {call}} : TRUE

\* the deeper of two levels of a descent
Max(a, b) == IF a < b THEN b ELSE a

\* the guard with the limit one level further
DepthExceededLate(depth, maxSchemaDepth) == depth > maxSchemaDepth + 1

\* if (depth > maxSchemaDepth)
DepthExceeded(depth, maxSchemaDepth) == depth > maxSchemaDepth

DefaultMaxSchemaDepth == 10
DefaultMaxFieldsInput == 100
DefaultMaxFieldsOutput == 50
DefaultMaxOperations == 200
DefaultMaxOperationArgs == 50

\* past the test if (depth > maxSchemaDepth) of both compilers
Within(depth, options) ==
    ~DepthExceeded(depth, OrDefault(options.maxSchemaDepth,
                                    DefaultMaxSchemaDepth))

\* ValidationOptions, every member optional; {} is NoOptions
NoOptions ==
    [maxOperations |-> 0, maxFields |-> 0, maxOperationArgs |-> 0,
     maxSchemaDepth |-> 0]

(***************************************************************************)
(* generate-validation.ts: the argument compiler.  The module-level cache  *)
(* is threaded through: each function returns the schema and the cache,    *)
(* and the deepest level (value of depth) its descent has reached.         *)
(***************************************************************************)
RECURSIVE graphqlTypeToZodSchema(_, _, _, _, _)
RECURSIVE CompileInputFields(_, _, _, _, _, _, _)

\* the for loop over fieldEntries.slice(0, maxFields) of an input object:
\* the iterations over the first fields, then the ones over the rest
CompileInputFields(fields, visitedTypes, depth, options, cache, zodObject, deepest) ==
    CASE Len(fields) = 0 ->
           [shape |-> zodObject, cache |-> cache, deepest |-> deepest]
      [] Len(fields) = 1 ->
           CHOOSE out \in
             { [shape |-> SetEntry(zodObject, fields[1].name,
                                   IF ~isNonNullType(fields[1].type)
                                   THEN ZOptional(r.schema)
                                   ELSE r.schema),
                cache |-> r.cache,
                deepest |-> Max(deepest, r.deepest)]
               : r \in {graphqlTypeToZodSchema(fields[1].type, visitedTypes,
                       depth + 1, options, cache)} } : TRUE
      [] Len(fields) > 1 ->
           CHOOSE out \in
             { CompileInputFields(SecondHalf(fields), visitedTypes, depth,
                                  options, first.cache, first.shape,
                                  first.deepest)
               : first \in {CompileInputFields(FirstHalf(fields), visitedTypes, depth,
                       options, cache, zodObject, deepest)} } : TRUE

\* the scalar switch
ScalarSchema(name) ==
    CASE name = "String" -> ZString
      [] name = "Int" -> ZInt
      [] name = "Float" -> ZNumber
      [] name = "Boolean" -> ZBoolean
      [] name = "ID" -> ZString
      [] OTHER -> ZString

\* the enum branch with the literal of the first value for every enum that
\* has values
EnumSchemaFirstLiteral(values) ==
    IF Len(values) = 0 THEN ZString ELSE ZLiteral(values[1])

\* the enum branch after the cache and visited checks
EnumSchema(values) ==
    IF Len(values) = 0 THEN ZString
    ELSE IF Len(values) = 1 THEN ZLiteral(values[1])
    ELSE ZEnum(values)

\* `enum_${type.name}`, `input_${type.name}`
InputCacheKey(type) ==
    (IF isEnumType(type) THEN "enum_" ELSE "input_") \o type.name

graphqlTypeToZodSchema(type, visitedTypes, depth, options, cache) ==
    CASE ~Within(depth, options) ->
           [schema |-> ZOptional(ZAny), cache |-> cache, deepest |-> depth]
      [] Within(depth, options) /\ isNonNullType(type) ->
           graphqlTypeToZodSchema(type.of, visitedTypes, depth + 1, options,
                                  cache)
      [] Within(depth, options) /\ isListType(type) ->
           CHOOSE out \in
             { [schema |-> ZArray(r.schema), cache |-> r.cache,
                deepest |-> r.deepest]
               : r \in {graphqlTypeToZodSchema(type.of, visitedTypes, depth + 1,
                       options, cache)} } : TRUE
      [] Within(depth, options) /\ isScalarType(type) ->
           [schema |-> ScalarSchema(type.name), cache |-> cache,
            deepest |-> depth]
      [] Within(depth, options) /\ isEnumType(type) ->
           IF InputCacheKey(type) \in DOMAIN cache
           THEN [schema |-> cache[InputCacheKey(type)], cache |-> cache,
                 deepest |-> depth]
           ELSE IF type.name \in visitedTypes
           THEN [schema |-> ZString, cache |-> cache, deepest |-> depth]
           ELSE [schema |-> EnumSchema(getValues(type)),
                 cache |-> (InputCacheKey(type) :> EnumSchema(getValues(type)))
                             @@ cache,
                 deepest |-> depth]
      [] Within(depth, options) /\ isInputObjectType(type)
           /\ (InputCacheKey(type) \in DOMAIN cache
                 \/ type.name \in visitedTypes) ->
           IF InputCacheKey(type) \in DOMAIN cache
           THEN [schema |-> cache[InputCacheKey(type)], cache |-> cache,
                 deepest |-> depth]
           ELSE [schema |-> ZOptional(ZObject(<<>>)), cache |-> cache,
                 deepest |-> depth]
      [] Within(depth, options) /\ isInputObjectType(type)
           /\ InputCacheKey(type) \notin DOMAIN cache
           /\ type.name \notin visitedTypes ->
           CHOOSE out \in
             { [schema |-> ZObject(r.shape),
                cache |-> (InputCacheKey(type) :> ZObject(r.shape))
                            @@ r.cache,
                deepest |-> r.deepest]
               : r \in {CompileInputFields(
                       SliceTo(getFields(type),
                       OrDefault(options.maxFields,
                       DefaultMaxFieldsInput)),
                       visitedTypes \cup {type.name}, depth, options, cache,
                       <<>>, depth)} } : TRUE
      [] OTHER -> [schema |-> ZAny, cache |-> cache, deepest |-> depth]

RECURSIVE CompileArgs(_, _, _, _, _)
\* the for loop over argsToProcess of one operation
CompileArgs(args, options, cache, zodObject, deepest) ==
    CASE Len(args) = 0 ->
           [shape |-> zodObject, cache |-> cache, deepest |-> deepest]
      [] Len(args) = 1 ->
           CHOOSE out \in
             { [shape |-> SetEntry(zodObject, args[1].name,
                                   IF ~isNonNullType(args[1].type)
                                   THEN ZOptional(r.schema)
                                   ELSE r.schema),
                cache |-> r.cache,
                deepest |-> Max(deepest, r.deepest)]
               : r \in {graphqlTypeToZodSchema(args[1].type, {}, 0, options, cache)} } : TRUE
      [] Len(args) > 1 ->
           CHOOSE out \in
             { CompileArgs(SecondHalf(args), options, first.cache,
                           first.shape, first.deepest)
               : first \in {CompileArgs(FirstHalf(args), options, cache, zodObject,
                       deepest)} } : TRUE

RECURSIVE CompileOperations(_, _, _, _, _)
\* the for loop over operationsToProcess
CompileOperations(ops, options, cache, schemas, deepest) ==
    CASE Len(ops) = 0 ->
           [schemas |-> schemas, cache |-> cache, deepest |-> deepest]
      [] Len(ops) = 1 /\ Len(ops[1].args) > 0 ->
           CHOOSE out \in
             { [schemas |-> (ops[1].name :> ZObject(r.shape)) @@ schemas,
                cache |-> r.cache,
                deepest |-> Max(deepest, r.deepest)]
               : r \in {CompileArgs(SliceTo(ops[1].args,
                       OrDefault(options.maxOperationArgs,
                       DefaultMaxOperationArgs)),
                       options, cache, <<>>, 0)} } : TRUE
      [] Len(ops) = 1 /\ Len(ops[1].args) = 0 ->
           [schemas |-> (ops[1].name :> ZObject(<<>>)) @@ schemas,
            cache |-> cache, deepest |-> deepest]
      [] Len(ops) > 1 ->
           CHOOSE out \in
             { CompileOperations(SecondHalf(ops), options, first.cache,
                                 first.schemas, first.deepest)
               : first \in {CompileOperations(FirstHalf(ops), options, cache, schemas,
                       deepest)} } : TRUE

\* Record<string, z.ZodSchema> = {}
NoSchemas == [n \in {} |-> ZAny]

generateValidationSchemas(ops, options, cache) ==
    LET maxOperations == OrDefault(options.maxOperations, DefaultMaxOperations)
    IN  CompileOperations(SliceTo(ops, maxOperations), options, cache,
                          NoSchemas, 0)

(***************************************************************************)
(* generate-validation.ts: the selection compiler                          *)
(***************************************************************************)
\* the transform over a schema that strips every key, so that every mapping
\* becomes the default selection
ZDefaultingEvery(inner, defaultSelection) ==
    [z |-> "effects", inner |-> ZOptional(ZObject(<<>>)),
     default |-> defaultSelection]

\* selectionSchema.transform(value => ... defaultSelection ...)
ZDefaulting(inner, defaultSelection) ==
    [z |-> "effects", inner |-> inner, default |-> defaultSelection]

RECURSIVE graphqlOutputTypeToZodSelectionSchema(_, _, _, _, _)
RECURSIVE CompileOutputFields(_, _, _, _, _, _, _)

\* the for loop over fieldEntries.slice(0, maxFields) of an object type;
\* every field gets new Set(visitedTypes)
CompileOutputFields(fields, visitedTypes, depth, options, cache, zodObject, deepest) ==
    CASE Len(fields) = 0 ->
           [shape |-> zodObject, cache |-> cache, deepest |-> deepest]
      [] Len(fields) = 1 ->
           CHOOSE out \in
             { [shape |-> SetEntry(zodObject, fields[1].name, r.schema),
                cache |-> r.cache,
                deepest |-> Max(deepest, r.deepest)]
               : r \in {graphqlOutputTypeToZodSelectionSchema(
                       fields[1].type, visitedTypes, depth + 1, options, cache)} } : TRUE
      [] Len(fields) > 1 ->
           CHOOSE out \in
             { CompileOutputFields(SecondHalf(fields), visitedTypes, depth,
                                   options, first.cache, first.shape,
                                   first.deepest)
               : first \in {CompileOutputFields(FirstHalf(fields), visitedTypes, depth,
                       options, cache, zodObject, deepest)} } : TRUE

\* `output_${type.name}_${depth}`
OutputCacheKey(type, depth) ==
    "output_" \o type.name \o "_" \o ToString(depth)

graphqlOutputTypeToZodSelectionSchema(type, visitedTypes, depth, options, cache) ==
    CASE ~Within(depth, options) ->
           [schema |-> ZOptional(ZBoolean), cache |-> cache,
            deepest |-> depth]
      [] Within(depth, options)
           /\ (isNonNullType(type) \/ isListType(type)) ->
           graphqlOutputTypeToZodSelectionSchema(type.of, visitedTypes,
                                                 depth + 1, options, cache)
      [] Within(depth, options)
           /\ (isScalarType(type) \/ isEnumType(type)) ->
           [schema |-> ZOptional(ZBoolean), cache |-> cache,
            deepest |-> depth]
      [] Within(depth, options) /\ isObjectType(type)
           /\ (OutputCacheKey(type, depth) \in DOMAIN cache
                 \/ type.name \in visitedTypes) ->
           IF OutputCacheKey(type, depth) \in DOMAIN cache
           THEN [schema |-> cache[OutputCacheKey(type, depth)],
                 cache |-> cache, deepest |-> depth]
           ELSE [schema |-> ZOptional(ZObject(<<>>)), cache |-> cache,
                 deepest |-> depth]
      [] Within(depth, options) /\ isObjectType(type)
           /\ OutputCacheKey(type, depth) \notin DOMAIN cache
           /\ type.name \notin visitedTypes ->
           CHOOSE out \in
             { [schema |-> ZOptional(ZStrict(ZObject(r.shape))),
                cache |-> (OutputCacheKey(type, depth)
                             :> ZOptional(ZStrict(ZObject(r.shape))))
                            @@ r.cache,
                deepest |-> r.deepest]
               : r \in {CompileOutputFields(
                       SliceTo(getFields(type),
                       OrDefault(options.maxFields,
                       DefaultMaxFieldsOutput)),
                       visitedTypes \cup {type.name}, depth, options, cache,
                       <<>>, depth)} } : TRUE
      [] OTHER ->
           [schema |-> ZOptional(ZBoolean), cache |-> cache,
            deepest |-> depth]

\* the unwrapping at the head of createDefaultSelection: NonNull, List, NonNull
DefaultCoreType(type) ==
    LET t1 == IF isNonNullType(type) THEN type.of ELSE type
        t2 == IF isListType(t1) THEN t1.of ELSE t1
    IN  IF isListType(t1) /\ isNonNullType(t2) THEN t2.of ELSE t2

\* the test with every in place of some
hasOnlyRequiredArgs(field) ==
    /\ field.args # <<>>
    /\ \A i \in DOMAIN field.args : isNonNullType(field.args[i].type)

\* field.args.some(arg => isNonNullType(arg.type))
hasRequiredArgs(field) ==
    \E i \in DOMAIN field.args : isNonNullType(field.args[i].type)

\* whether the loop body of createDefaultSelection sets the field to true
DefaultSelects(field) ==
    LET fieldType == IF isNonNullType(field.type) THEN field.type.of
                     ELSE field.type
        itemType == IF isListType(fieldType) /\ isNonNullType(fieldType.of)
                    THEN fieldType.of.of
                    ELSE IF isListType(fieldType) THEN fieldType.of
                    ELSE fieldType
    IN  /\ ~hasRequiredArgs(field)
        /\ \/ isScalarType(fieldType) \/ isEnumType(fieldType)
           \/ (isListType(fieldType)
                 /\ (isScalarType(itemType) \/ isEnumType(itemType)))

RECURSIVE DefaultEntries(_, _)
DefaultEntries(fields, acc) ==
    IF fields = <<>> THEN acc
    ELSE DefaultEntries(Tail(fields),
            IF DefaultSelects(Head(fields))
            THEN SetEntry(acc, Head(fields).name, JTrue)
            ELSE acc)

createDefaultSelection(type) ==
    LET coreType == DefaultCoreType(type)
    IN  IF isObjectType(coreType)
        THEN JObj(DefaultEntries(getFields(coreType), <<>>))
        ELSE EmptyObj

RECURSIVE CompileOutputOperations(_, _, _, _, _)
\* the for loop over operationsToProcess of generateOutputSelectionSchemas
CompileOutputOperations(ops, options, cache, schemas, deepest) ==
    CASE Len(ops) = 0 ->
           [schemas |-> schemas, cache |-> cache, deepest |-> deepest]
      [] Len(ops) = 1 ->
           CHOOSE out \in
             { [schemas |->
                    (ops[1].name :>
                       ZDefaulting(r.schema,
                                   createDefaultSelection(ops[1].field.type)))
                      @@ schemas,
                cache |-> r.cache,
                deepest |-> Max(deepest, r.deepest)]
               : r \in {graphqlOutputTypeToZodSelectionSchema(ops[1].field.type, {},
                       0, options, cache)} } : TRUE
      [] Len(ops) > 1 ->
           CHOOSE out \in
             { CompileOutputOperations(SecondHalf(ops), options, first.cache,
                                       first.schemas, first.deepest)
               : first \in {CompileOutputOperations(FirstHalf(ops), options, cache,
                       schemas, deepest)} } : TRUE

generateOutputSelectionSchemas(ops, options, cache) ==
    LET maxOperations == OrDefault(options.maxOperations, DefaultMaxOperations)
    IN  CompileOutputOperations(SliceTo(ops, maxOperations), options, cache,
                                NoSchemas, 0)

(***************************************************************************)
(* zod: schema.parse(value).  The result is the parsed value or the        *)
(* issues, in the order zod collects them.                                 *)
(***************************************************************************)
Issue(code, expected, received, path) ==
    [code |-> code, expected |-> expected, received |-> received, path |-> path]
Valid(value) == [ok |-> TRUE, val |-> value, issues |-> <<>>]
Invalid(issues) == [ok |-> FALSE, val |-> JUndef, issues |-> issues]
InvalidType(expected, value, path) ==
    Invalid(<< Issue("invalid_type", expected, ParsedType(value), path) >>)

IsInteger(value) == value.n[2] = 0

RECURSIVE ZodParse(_, _, _)
RECURSIVE ParseShape(_, _, _, _, _)
RECURSIVE ParseItems(_, _, _, _, _, _)

\* ZodObject._parse: the pairs over the shape keys, in shape order; a key is
\* set in the result when its value is defined or the key is in the data
ParseShape(shape, data, path, entries, issues) ==
    IF shape = <<>>
    THEN [entries |-> entries, issues |-> issues]
    ELSE LET key == Head(shape)[1]
             r == ZodParse(Head(shape)[2], GetProp(data, key),
                           Append(path, key))
             set == r.ok /\ (r.val # JUndef \/ HasKey(data, key))
         IN  ParseShape(Tail(shape), data, path,
                        IF set THEN Append(entries, <<key, r.val>>) ELSE entries,
                        issues \o r.issues)

\* ZodArray._parse: every item, in order
ParseItems(item, values, i, path, out, issues) ==
    IF i > Len(values)
    THEN [items |-> out, issues |-> issues]
    ELSE LET r == ZodParse(item, values[i], Append(path, ToString(i - 1)))
         IN  ParseItems(item, values, i + 1, path,
                        IF r.ok THEN Append(out, r.val) ELSE out,
                        issues \o r.issues)

ZodParse(schema, value, path) ==
    CASE schema.z = "any" -> Valid(value)
      [] schema.z = "string" ->
           IF value.t = "string" THEN Valid(value)
           ELSE InvalidType("string", value, path)
      [] schema.z = "boolean" ->
           IF value.t = "boolean" THEN Valid(value)
           ELSE InvalidType("boolean", value, path)
      [] schema.z = "number" ->
           IF value.t = "number" THEN Valid(value)
           ELSE InvalidType("number", value, path)
      [] schema.z = "int" ->
           IF value.t # "number" THEN InvalidType("number", value, path)
           ELSE IF IsInteger(value) THEN Valid(value)
           ELSE Invalid(<< Issue("invalid_type", "integer", "float", path) >>)
      [] schema.z = "enum" ->
           IF value.t # "string" THEN InvalidType("enum", value, path)
           ELSE IF value.s \in Range(schema.vals) THEN Valid(value)
           ELSE Invalid(<< Issue("invalid_enum_value", "enum", value.s, path) >>)
      [] schema.z = "literal" ->
           IF value = JStr(schema.val) THEN Valid(value)
           ELSE Invalid(<< Issue("invalid_literal", schema.val, ParsedType(value), path) >>)
      [] schema.z = "optional" ->
           IF value.t = "undefined" THEN Valid(JUndef)
           ELSE ZodParse(schema.inner, value, path)
      [] schema.z = "array" ->
           IF value.t # "array" THEN InvalidType("array", value, path)
           ELSE LET r == ParseItems(schema.item, value.a, 1, path, <<>>, <<>>)
                IN  IF r.issues = <<>> THEN Valid(JArr(r.items))
                    ELSE Invalid(r.issues)
      [] schema.z = "object" ->
           IF value.t # "object" THEN InvalidType("object", value, path)
           ELSE LET r == ParseShape(schema.shape, value, path, <<>>, <<>>)
                    shapeKeys == {schema.shape[i][1] : i \in DOMAIN schema.shape}
                    extraKeys == Range(ObjectKeys(value)) \ shapeKeys
                    issues == IF schema.strict /\ extraKeys # {}
                              THEN Append(r.issues,
                                     Issue("unrecognized_keys", "", "", path))
                              ELSE r.issues
                IN  IF issues = <<>> THEN Valid(JObj(r.entries))
                    ELSE Invalid(issues)
      [] schema.z = "effects" ->
           LET r == ZodParse(schema.inner, value, path)
           IN  IF ~r.ok THEN r
               ELSE IF Falsy(r.val)
                       \/ (r.val.t = "object" /\ Len(ObjectKeys(r.val)) = 0)
               THEN Valid(schema.default)
               ELSE Valid(r.val)

\* schema.parse(value): a ZodError carrying the issues when invalid
parse(schema, value) == ZodParse(schema, value, <<>>)

Thrown(kind, name) == [ok |-> FALSE, error |-> kind, name |-> name]
Returned(value) == [ok |-> TRUE, value |-> value]

\* names every object created by a literal inherits from Object.prototype
ObjectPrototypeMembers ==
    {"constructor", "toString", "valueOf", "hasOwnProperty", "__proto__"}

\* record[key] on a Record created as {}: the own property, else the
\* inherited member (a function or Object.prototype, neither has parse),
\* else undefined
Lookup(record, key) ==
    IF key \in DOMAIN record THEN record[key]
    ELSE IF key \in ObjectPrototypeMembers THEN [z |-> "inherited"]
    ELSE [z |-> "undefined"]

\* calling parse on an inherited member is a TypeError, which the catch
\* turns into the validation error
validateOutputSelection(operationName, selection, outputSchemas) ==
    LET outputSchema == Lookup(outputSchemas, operationName)
    IN  IF outputSchema.z = "undefined"
        THEN Thrown("No output schema found for operation", operationName)
        ELSE IF outputSchema.z = "inherited"
        THEN Thrown("Output selection validation failed for", operationName)
        ELSE LET r == parse(outputSchema, selection)
             IN  IF r.ok THEN Returned(r.val)
                 ELSE Thrown("Output selection validation failed for",
                             operationName)

validateOperationArguments(operationName, variables, schemas) ==
    LET validationSchema == Lookup(schemas, operationName)
    IN  IF validationSchema.z = "undefined"
        THEN Thrown("No validation schema found for operation", operationName)
        ELSE IF validationSchema.z = "inherited"
        THEN Thrown("Validation failed for", operationName)
        ELSE LET r == parse(validationSchema, variables)
             IN  IF r.ok THEN Returned(r.val)
                 ELSE Thrown("Validation failed for", operationName)

(***************************************************************************)
(* generate-query-string.ts: the renderer.  A text is the sequence of its  *)
(* pieces; Flatten concatenates them into the string.                      *)
(***************************************************************************)
RECURSIVE Flatten(_)
Flatten(text) == IF text = <<>> THEN "" ELSE Head(text) \o Flatten(Tail(text))

RECURSIVE Join(_, _)
\* texts.join(separator)
Join(texts, separator) ==
    IF texts = <<>> THEN <<>>
    ELSE IF Len(texts) = 1 THEN Head(texts)
    ELSE Head(texts) \o separator \o Join(Tail(texts), separator)

UpperCaseLetters ==
    {"A", "B", "C", "D", "E", "F", "G", "H", "I", "J", "K", "L", "M", "N",
     "O", "P", "Q", "R", "S", "T", "U", "V", "W", "X", "Y", "Z"}

\* the first character of the property names that occur in selections
FirstChar(name) ==
    CASE name \in {"Dog", "DRAFT"} -> "D"
      [] name = "Cat" -> "C"
      [] name \in {"PostID", "Post"} -> "P"
      [] name = "User" -> "U"
      [] name = "_Dog" -> "_"
      [] name = "dog" -> "d"
      [] name \in {"id", "isVisibleTo", "id name"} -> "i"
      [] name \in {"name", "nick"} -> "n"
      [] name = "role" -> "r"
      [] name \in {"tags", "title", "text"} -> "t"
      [] name = "comments" -> "c"
      [] name \in {"posts", "profile"} -> "p"
      [] name = "friends" -> "f"
      [] name = "hasPermission" -> "h"
      [] name \in {"author", "avatar"} -> "a"
      [] name \in {"bio", "bogus", "breed"} -> "b"
      [] name = "lives" -> "l"
      [] OTHER -> "_"

\* the test with a pattern that is not anchored to uppercase: /^[A-Za-z]/
isTypeNameAnyCase(fieldName) == FirstChar(fieldName) # "_"

\* /^[A-Z]/.test(fieldName)
isTypeName(fieldName) == FirstChar(fieldName) \in UpperCaseLetters

RECURSIVE buildFieldSelectionString(_)
RECURSIVE BuildFields(_, _)

\* the loop body without the tests of nestedFields: an object whose rendering
\* is empty is pushed with empty braces
FieldTextsUnguarded(fieldName, value, nestedFields) ==
    IF value = JTrue
    THEN << <<fieldName>> >>
    ELSE IF value.t \in {"object", "array"}
    THEN IF isTypeName(fieldName)
         THEN << <<"...", " ", "on", " ", fieldName, " ", "{", " ">>
                   \o nestedFields \o <<" ", "}">> >>
         ELSE << <<fieldName, " ", "{", " ">> \o nestedFields
                   \o <<" ", "}">> >>
    ELSE << >>

\* the loop body pushing the fields of a nested mapping without its key
FieldTextsNameless(fieldName, value, nestedFields) ==
    IF value = JTrue
    THEN << <<fieldName>> >>
    ELSE IF value.t \in {"object", "array"} /\ nestedFields # <<>>
    THEN << nestedFields >>
    ELSE << >>

\* the loop body: the texts one entry pushes onto fields (one or none);
\* nestedFields is the rendering of a value that is an object
FieldTexts(fieldName, value, nestedFields) ==
    IF value = JTrue
    THEN << <<fieldName>> >>
    ELSE IF value.t \in {"object", "array"} /\ nestedFields # <<>>
    THEN IF isTypeName(fieldName)
         THEN << <<"...", " ", "on", " ", fieldName, " ", "{", " ">>
                   \o nestedFields \o <<" ", "}">> >>
         ELSE << <<fieldName, " ", "{", " ">> \o nestedFields
                   \o <<" ", "}">> >>
    ELSE << >>

\* the for loop over Object.entries(selection): the fields array
BuildFields(entries, fields) ==
    IF entries = <<>> THEN fields
    ELSE LET fieldName == Head(entries)[1]
             value == Head(entries)[2]
         IN  BuildFields(Tail(entries),
               fields \o FieldTexts(fieldName, value,
                                    buildFieldSelectionString(value)))

\* Object.entries(value): the own properties of an object, the indexed items
\* of an array; a boolean or a number has none, and a string's are its
\* characters, which the loop skips like any other string value
ObjectEntries(value) ==
    IF value.t = "object" THEN value.o
    ELSE IF value.t = "array"
    THEN [i \in DOMAIN value.a |-> <<ToString(i - 1), value.a[i]>>]
    ELSE <<>>

buildFieldSelectionString(selection) ==
    Join(BuildFields(ObjectEntries(selection), <<>>), <<" ">>)

RECURSIVE TypeString(_)
\* arg.type.toString()
TypeString(ty) ==
    IF ty.k = "nonnull" THEN TypeString(ty.of) \o "!"
    ELSE IF ty.k = "list" THEN "[" \o TypeString(ty.of) \o "]"
    ELSE ty.name

\* the check with the loop run from the last argument: the last absent
\* required argument is the one named
LastMissingRequired(args, variables) ==
    LET missing == {i \in DOMAIN args :
                       ~HasKey(variables, args[i].name)
                       /\ isNonNullType(args[i].type)}
    IN  IF missing = {} THEN 0
        ELSE CHOOSE i \in missing : \A j \in missing : i >= j

\* the first declared argument that is absent and required, or 0
FirstMissingRequired(args, variables) ==
    LET missing == {i \in DOMAIN args :
                       ~HasKey(variables, args[i].name)
                       /\ isNonNullType(args[i].type)}
    IN  IF missing = {} THEN 0
        ELSE CHOOSE i \in missing : \A j \in missing : i <= j

\* the parentheses without the test for an empty list
ParenthesisedAlways(list) == <<"(">> \o list \o <<")">>

\* list ? `(${list})` : ''
Parenthesised(list) ==
    IF list # <<>> THEN <<"(">> \o list \o <<")">> ELSE <<>>

\* the variables generateQueryString warns about as not used by the
\* operation: the keys that are no declared argument
unusedVariables(operation, variables) ==
    {varName \in Range(ObjectKeys(variables)) :
       varName \notin {operation.args[i].name : i \in DOMAIN operation.args}}

generateQueryString(operation, variables, fieldSelection) ==
    LET missing == FirstMissingRequired(operation.args, variables)
        args == Join([i \in DOMAIN operation.args |->
                        <<"$", operation.args[i].name, ":", " ",
                          TypeString(operation.args[i].type)>>],
                     <<",", " ">>)
        fieldArgs == Join([i \in DOMAIN operation.args |->
                             <<operation.args[i].name, ":", " ", "$",
                               operation.args[i].name>>],
                          <<",", " ">>)
        fieldsToSelect == IF Falsy(fieldSelection) THEN <<>>
                          ELSE buildFieldSelectionString(fieldSelection)
        fieldArgsStr == Parenthesised(fieldArgs)
        operationCall == IF fieldsToSelect # <<>>
                         THEN <<operation.name>> \o fieldArgsStr
                                \o <<" ", "{", " ">> \o fieldsToSelect
                                \o <<" ", "}">>
                         ELSE <<operation.name>> \o fieldArgsStr
        argsStr == Parenthesised(args)
    IN  IF missing # 0
        THEN Thrown("Missing required variable", operation.args[missing].name)
        ELSE IF operation.type \in {"query", "mutation", "subscription"}
        THEN Returned(<<operation.type, " ", operation.name>> \o argsStr
                        \o <<" ", "{", " ">> \o operationCall \o <<" ", "}">>)
        ELSE Thrown("Unknown operation type", operation.type)

(***************************************************************************)
(* schema-parser.ts                                                        *)
(***************************************************************************)
\* A Config: the booleans are "true", "false" or "unset"; an unset prefix or
\* phrase is "" and an unset limit is 0 (falsy like undefined).
Config(query, mutation, subscription, queryPrefix, mutationPrefix, subscriptionPrefix, ignorePhrase, maxOperations, maxOperationArgs, maxSchemaDepth, maxFields) ==
    [query |-> query, mutation |-> mutation, subscription |-> subscription,
     queryPrefix |-> queryPrefix, mutationPrefix |-> mutationPrefix,
     subscriptionPrefix |-> subscriptionPrefix, ignorePhrase |-> ignorePhrase,
     maxOperations |-> maxOperations, maxOperationArgs |-> maxOperationArgs,
     maxSchemaDepth |-> maxSchemaDepth, maxFields |-> maxFields]

defaultConfig ==
    Config("true", "false", "false", "", "", "", "NO_MPC_TOOL", 200, 50, 10, 100)

\* field.description.includes(phrase), a description being its words
includes(description, phrase) == phrase \in Range(description)

\* fieldArgs.map(arg => ({name: arg.name, type: arg.type}))
transformArgs(fieldArgs) ==
    [i \in DOMAIN fieldArgs |->
       [name |-> fieldArgs[i].name, type |-> fieldArgs[i].type]]

Operation(type, name, field) ==
    [type |-> type, name |-> name, field |-> field,
     args |-> transformArgs(field.args), description |-> field.description]

RECURSIVE ExtractFields(_, _, _, _, _)
\* one of the three loops over the fields of a root type
ExtractFields(fields, type, prefix, ignorePhrase, acc) ==
    CASE Len(fields) = 0 -> acc
      [] Len(fields) = 1 ->
           LET field == fields[1]
               uniqueName == type \o "-" \o field.name
               ignored == /\ field.description # <<>>
                          /\ ignorePhrase # ""
                          /\ includes(field.description, ignorePhrase)
           IN  IF ignored \/ uniqueName \in acc.operationsSet
               THEN acc
               ELSE [operations |->
                        Append(acc.operations,
                               Operation(type, prefix \o field.name, field)),
                     operationsSet |-> acc.operationsSet \cup {uniqueName}]
      [] Len(fields) > 1 ->
           CHOOSE out \in
             { ExtractFields(SecondHalf(fields), type, prefix,
                             ignorePhrase, first)
               : first \in {ExtractFields(FirstHalf(fields), type, prefix, ignorePhrase,
                       acc)} } : TRUE

extractOperationsFromSchema(cfg) ==
    LET none == [operations |-> <<>>, operationsSet |-> {}]
        q == IF cfg.query # "false"
             THEN ExtractFields(SchemaTypes["Query"].fields, "query",
                                cfg.queryPrefix, cfg.ignorePhrase, none)
             ELSE none
        m == IF cfg.mutation = "true"
             THEN ExtractFields(SchemaTypes["Mutation"].fields, "mutation",
                                cfg.mutationPrefix, cfg.ignorePhrase, q)
             ELSE q
        u == IF cfg.subscription = "true"
             THEN ExtractFields(SchemaTypes["Subscription"].fields,
                                "subscription", cfg.subscriptionPrefix,
                                cfg.ignorePhrase, m)
             ELSE m
    IN  u.operations

\* the validationOptions schemaParser builds from its config
validationOptions(cfg) ==
    [maxOperations |-> OrDefault(cfg.maxOperations, DefaultMaxOperations),
     maxFields |-> OrDefault(cfg.maxFields, DefaultMaxFieldsInput),
     maxOperationArgs |-> OrDefault(cfg.maxOperationArgs, DefaultMaxOperationArgs),
     maxSchemaDepth |-> OrDefault(cfg.maxSchemaDepth, DefaultMaxSchemaDepth)]

\* the Tool objects schemaParser pushes, for the first maxTools operations.
\* A tool's two schemas are the objects the schema maps hold under its name,
\* so they are read from the maps.
Tool(operation) == [name |-> operation.name, operation |-> operation]

\* inputSchema: validationSchemas[operation.name] || z.object({})
inputSchema(tool, inSchemas) ==
    IF tool.name \in DOMAIN inSchemas
    THEN inSchemas[tool.name] ELSE ZObject(<<>>)

\* outputSchema: outputSelectionSchemas[operation.name]
outputSchema(tool, outSchemas) ==
    IF tool.name \in DOMAIN outSchemas
    THEN outSchemas[tool.name] ELSE [z |-> "undefined"]

\* the error for the first issue of a ZodError, whatever its kind
ZodErrorFirstIssue(issues, operationName) ==
    IF issues = <<>> \/ issues[1].code # "invalid_type"
    THEN Thrown("Validation failed for", operationName)
    ELSE IF issues[1].received = "undefined"
    THEN Thrown("Missing required variable", issues[1].path[1])
    ELSE Thrown("Invalid type for variable", issues[1].path[1])

\* the error execution throws for a ZodError: the first missing-required
\* issue, else the first other invalid_type issue, else the generic error
ZodErrorToThrown(issues, operationName) ==
    LET missing == {i \in DOMAIN issues :
                      issues[i].code = "invalid_type"
                      /\ issues[i].received = "undefined"}
        invalid == {i \in DOMAIN issues :
                      issues[i].code = "invalid_type"
                      /\ issues[i].received # "undefined"}
        first(S) == CHOOSE i \in S : \A j \in S : i <= j
        fieldName(i) == IF issues[i].path = <<>> THEN "undefined"
                        ELSE issues[i].path[1]
    IN  IF missing # {}
        THEN Thrown("Missing required variable", fieldName(first(missing)))
        ELSE IF invalid # {}
        THEN Thrown("Invalid type for variable", fieldName(first(invalid)))
        ELSE Thrown("Validation failed for", operationName)

\* execution without the validation of the variables
executionUnvalidated(operation, variablesArg, selectedFieldsArg, inSchemas) ==
    LET variables == IF variablesArg = JUndef THEN EmptyObj ELSE variablesArg
        selectedFields == IF selectedFieldsArg = JUndef THEN EmptyObj
                          ELSE selectedFieldsArg
        query == IF variables.t = "object"
                 THEN generateQueryString(operation, variables, selectedFields)
                 ELSE Thrown("TypeError", operation.name)
    IN  IF ~query.ok THEN query
        ELSE Returned([query |-> query.value, variables |-> variables])

\* tool.execution(variables = {}, selectedFields = {})
execution(operation, variablesArg, selectedFieldsArg, inSchemas) ==
    LET variables0 == IF variablesArg = JUndef THEN EmptyObj ELSE variablesArg
        selectedFields == IF selectedFieldsArg = JUndef THEN EmptyObj
                          ELSE selectedFieldsArg
        validated == operation.name \in DOMAIN inSchemas
        r == parse(inSchemas[operation.name], variables0)
        variables == IF validated THEN r.val ELSE variables0
        query == generateQueryString(operation, variables, selectedFields)
    IN  IF validated /\ ~r.ok
        THEN ZodErrorToThrown(r.issues, operation.name)
        ELSE IF ~query.ok THEN query
        ELSE Returned([query |-> query.value, variables |-> variables])

(***************************************************************************)
(* The callers' inputs                                                     *)
(***************************************************************************)
\* the configurations schemaParser is called with: the default one, the
\* tests' one (everything else unset), and one that lowers every limit
Configs ==
    { defaultConfig,
      Config("true", "true", "true", "", "", "subscription", "", 0, 0, 0, 0),
      Config("true", "true", "false", "", "", "", "NO_MCP_TOOL", 6, 1, 2, 5) }

Obj1(k, v) == JObj(<< <<k, v>> >>)
Obj2(k1, v1, k2, v2) == JObj(<< <<k1, v1>>, <<k2, v2>> >>)

\* variables objects, valid and invalid, for the operations of the schema
VariablesInputs ==
    { JUndef, EmptyObj,
      Obj1("id", JStr("123")), Obj1("id", JInt(123)),
      Obj2("id", JStr("123"), "extra", JStr("x")),
      Obj2("id", JInt(123), "limit", JInt(5)),
      Obj1("query", JStr("q")), Obj1("limit", JInt(5)),
      Obj2("query", JStr("q"), "limit", JInt(5)),
      Obj2("query", JStr("q"), "limit", JFloat(2, 5)),
      Obj2("limit", JStr("five"), "query", JInt(1)),
      Obj1("PostID", JStr("post-456")),
      Obj2("a", JInt(5), "b", JInt(10)), Obj1("a", JInt(5)),
      Obj2("a", JStr("5"), "b", JInt(10)), Obj1("a", JStr("5")),
      Obj1("input", Obj2("username", JStr("john"), "email", JStr("j@x"))),
      Obj1("input", Obj1("username", JStr("john"))),
      Obj1("input", JObj(<< <<"username", JStr("john")>>,
                            <<"email", JStr("j@x")>>,
                            <<"role", JStr("DRAFT")>> >>)),
      Obj1("input", JObj(<< <<"username", JStr("john")>>,
                            <<"email", JStr("j@x")>>,
                            <<"role", JStr("ADMIN")>> >>)),
      Obj1("input", JObj(<< <<"username", JStr("john")>>,
                            <<"email", JStr("j@x")>>,
                            <<"age", JStr("old")>> >>)),
      Obj1("filter", Obj1("status", JStr("DRAFT"))),
      Obj1("filter", Obj1("status", JStr("ADMIN"))),
      Obj1("filter", Obj1("and", Obj1("status", JStr("ADMIN")))),
      Obj1("filter", Obj1("status", JStr("PUBLISHED"))),
      Obj1("filter", Obj1("status", JStr("draft"))),
      Obj1("filter", Obj1("kind", JStr("ONLY"))),
      Obj1("filter", Obj1("kind", JStr("DRAFT"))),
      Obj1("filter", Obj1("kind", JStr(""))) }

\* the variables a caller passes to an operation: keyed by its arguments,
\* possibly with a key that is no argument
VariablesFor(operation) ==
    { v \in VariablesInputs :
        v.t = "object" =>
          Range(ObjectKeys(v)) \subseteq
            {operation.args[i].name : i \in DOMAIN operation.args}
              \cup {"extra", "limit"} }

MaxNesting == 2

\* selections one level deep, and non-mappings
FlatSelections ==
    { JUndef, JNull, EmptyObj, JTrue, JFalse,
      Obj1("id", JTrue), Obj1("id", JFalse), Obj1("id", JStr("invalid")),
      Obj1("id", JNull), Obj1("bogus", JTrue), Obj1("posts", JTrue),
      Obj1("hasPermission", JTrue), Obj1("PostID", JTrue),
      Obj1("breed", JTrue), Obj1("posts", EmptyObj),
      Obj2("id", JTrue, "bogus", JTrue), Obj2("name", JTrue, "id", JTrue),
      Obj2("id", JTrue, "name", JFalse), Obj2("PostID", JTrue, "title", JTrue),
      Obj2("__typename", JTrue, "Dog", Obj1("breed", JTrue)),
      Obj1("nick", JTrue), Obj1("posts", Obj1("isVisibleTo", JTrue)),
      Obj1("posts", Obj1("comments", Obj1("text", JTrue))) }

NestKeys == {"posts", "author", "friends"}

RECURSIVE NestedSelections(_)
\* the selections of FlatSelections that are mappings, put under up to n keys
NestedSelections(n) ==
    IF n = 0
    THEN { Obj1("id", JTrue), Obj1("bogus", JTrue), Obj1("title", JTrue),
           Obj1("id", JStr("invalid")) }
    ELSE LET below == NestedSelections(n - 1)
         IN  below \cup { Obj1(k, s) : k \in NestKeys, s \in below }

SelectionInputs == FlatSelections \cup NestedSelections(MaxNesting)

\* the selections passed to execution besides the operation's default one
ExecutionSelections ==
    { JUndef, EmptyObj, Obj1("id", JTrue), Obj2("id", JTrue, "bogus", JTrue),
      Obj2("PostID", JTrue, "title", JTrue),
      Obj1("posts", Obj1("title", JTrue)),
      Obj1("posts", Obj1("bogus", JTrue)),
      Obj2("__typename", JTrue, "Dog", Obj1("breed", JTrue)) }

\* the operations generateQueryString is called with: the ones extracted
\* from the schema, and hand-made ones as in the tests
RenderOperations ==
    Range(extractOperationsFromSchema(
            Config("true", "true", "true", "", "", "", "", 0, 0, 0, 0)))
    \cup { [type |-> "query", name |-> "search",
            args |-> << Arg("limit", IntT), Arg("query", NonNull(StringT)),
                        Arg("ids", NonNull(ListOf(NonNull(IDT)))) >>],
           [type |-> "subscription", name |-> "ticks", args |-> <<>>],
           [type |-> "invalid", name |-> "test", args |-> <<>>],
           [type |-> "mutation", name |-> "touch",
            args |-> << Arg("id", IDT), Arg("at", Named("DateTime")) >>] }

RECURSIVE RenderVariables(_)
\* the variables objects over a list of arguments: each argument is absent,
\* present, or present with the value undefined
RenderVariables(args) ==
    IF args = <<>> THEN {EmptyObj}
    ELSE LET name == Head(args).name
         IN  UNION { { v, JObj(<< <<name, JStr("x")>> >> \o v.o),
                       JObj(<< <<name, JUndef>> >> \o v.o) }
                     : v \in RenderVariables(Tail(args)) }

\* the field selections generateQueryString is called with
RenderSelections ==
    { JUndef, JNull, EmptyObj, JTrue, JStr("id"),
      Obj1("id", JTrue), Obj1("id", JFalse), Obj1("id", JNull),
      Obj1("id", JUndef), Obj1("id", JStr("yes")), Obj1("id", JInt(1)),
      Obj2("id", JTrue, "name", JTrue), Obj2("name", JTrue, "id", JTrue),
      Obj2("id", JFalse, "name", JTrue), Obj2("id", JTrue, "name", JFalse),
      Obj1("posts", EmptyObj), Obj1("posts", Obj1("title", JTrue)),
      Obj1("posts", Obj1("title", JFalse)),
      Obj2("posts", Obj1("title", JFalse), "id", JTrue),
      Obj2("id", JTrue, "posts", Obj2("title", JTrue, "author",
                                       Obj1("name", JTrue))),
      Obj1("posts", Obj1("author", Obj1("name", JFalse))),
      Obj1("tags", JArr(<<JTrue>>)),
      Obj1("Dog", JTrue), Obj1("Dog", JFalse), Obj1("Dog", EmptyObj),
      Obj1("Dog", Obj1("breed", JTrue)), Obj1("Dog", Obj1("breed", JFalse)),
      Obj1("dog", Obj1("breed", JTrue)), Obj1("_Dog", Obj1("breed", JTrue)),
      Obj1("PostID", JTrue), Obj1("PostID", Obj1("id", JTrue)),
      JObj(<< <<"__typename", JTrue>>, <<"Dog", Obj1("breed", JTrue)>>,
              <<"Cat", Obj1("lives", JTrue)>> >>),
      Obj1("posts", Obj2("title", JTrue, "Dog", Obj1("breed", JTrue))),
      Obj1("Dog", Obj1("Cat", Obj1("lives", JTrue))),
      Obj1("id name", JTrue) }

(***************************************************************************)
(* The state machine.  call is the call in progress with its outcome, or   *)
(* NoCall between calls.                                                   *)
(***************************************************************************)
EmptyCache == [k \in {} |-> ZAny]
NoCall == [op |-> "none"]

Init ==
    /\ typeSchemaCache = EmptyCache
    /\ config = defaultConfig
    /\ operations = <<>>
    /\ validationSchemas = NoSchemas
    /\ outputSelectionSchemas = NoSchemas
    /\ tools = <<>>
    /\ call = NoCall

\* clearTypeSchemaCache()
ClearTypeSchemaCache ==
    /\ call = NoCall
    /\ typeSchemaCache' = EmptyCache
    /\ call' = [op |-> "clearTypeSchemaCache"]
    /\ UNCHANGED <<config, operations, validationSchemas,
                   outputSelectionSchemas, tools>>

\* schemaParser compiling on an emptied cache
SchemaParserClearing(cfg) ==
    LET ops == extractOperationsFromSchema(cfg)
        options == validationOptions(cfg)
        v == generateValidationSchemas(ops, options, EmptyCache)
        o == generateOutputSelectionSchemas(ops, options, v.cache)
        maxTools == OrDefault(cfg.maxOperations, DefaultMaxOperations)
    IN  /\ call = NoCall
        /\ config' = cfg
        /\ operations' = ops
        /\ validationSchemas' = v.schemas
        /\ outputSelectionSchemas' = o.schemas
        /\ typeSchemaCache' = o.cache
        /\ tools' = [i \in 1..(IF Len(ops) < maxTools THEN Len(ops) ELSE maxTools)
                       |-> Tool(ops[i])]
        /\ call' = [op |-> "schemaParser",
                    deepest |-> [input |-> v.deepest, output |-> o.deepest]]

\* schemaParser(graphqlSchema, cfg)
SchemaParser(cfg) ==
    LET ops == extractOperationsFromSchema(cfg)
        options == validationOptions(cfg)
        v == generateValidationSchemas(ops, options, typeSchemaCache)
        o == generateOutputSelectionSchemas(ops, options, v.cache)
        maxTools == OrDefault(cfg.maxOperations, DefaultMaxOperations)
    IN  /\ call = NoCall
        /\ config' = cfg
        /\ operations' = ops
        /\ validationSchemas' = v.schemas
        /\ outputSelectionSchemas' = o.schemas
        /\ typeSchemaCache' = o.cache
        /\ tools' = [i \in 1..(IF Len(ops) < maxTools THEN Len(ops) ELSE maxTools)
                       |-> Tool(ops[i])]
        /\ call' = [op |-> "schemaParser",
                    deepest |-> [input |-> v.deepest, output |-> o.deepest]]

\* tools[i].execution(variables, selectedFields)
Execution(i, variables, selectedFields) ==
    /\ call = NoCall
    /\ call' = [op |-> "execution", tool |-> i, variables |-> variables,
                selection |-> selectedFields,
                result |-> execution(tools[i].operation, variables,
                                     selectedFields, validationSchemas)]
    /\ UNCHANGED <<typeSchemaCache, config, operations, validationSchemas,
                   outputSelectionSchemas, tools>>

\* validateOutputSelection(operationName, selection, outputSchemas)
ValidateOutputSelection(operationName, selection) ==
    /\ call = NoCall
    /\ call' = [op |-> "validateOutputSelection", name |-> operationName,
                selection |-> selection,
                result |-> validateOutputSelection(operationName, selection,
                                                   outputSelectionSchemas)]
    /\ UNCHANGED <<typeSchemaCache, config, operations, validationSchemas,
                   outputSelectionSchemas, tools>>

\* validateOperationArguments(operationName, variables, validationSchemas)
ValidateOperationArguments(operationName, variables) ==
    /\ call = NoCall
    /\ call' = [op |-> "validateOperationArguments", name |-> operationName,
                variables |-> variables,
                result |-> validateOperationArguments(operationName, variables,
                                                      validationSchemas)]
    /\ UNCHANGED <<typeSchemaCache, config, operations, validationSchemas,
                   outputSelectionSchemas, tools>>

\* generateQueryString(operation, variables, fieldSelection)
GenerateQueryString(operation, variables, fieldSelection) ==
    /\ call = NoCall
    /\ call' = [op |-> "generateQueryString", operation |-> operation,
                variables |-> variables, selection |-> fieldSelection,
                result |-> generateQueryString(operation, variables,
                                               fieldSelection)]
    /\ UNCHANGED <<typeSchemaCache, config, operations, validationSchemas,
                   outputSelectionSchemas, tools>>

\* the caller takes the outcome of the call; the program is single-threaded,
\* so the next call starts after that
Return ==
    /\ call # NoCall
    /\ call' = NoCall
    /\ UNCHANGED <<typeSchemaCache, config, operations, validationSchemas,
                   outputSelectionSchemas, tools>>

OperationNames == {operations[i].name : i \in DOMAIN operations}

\* names asked for that no schema was compiled for
UncompiledNames == {"unknownOperation", "constructor"}

Next ==
    \/ ClearTypeSchemaCache
    \/ \E cfg \in Configs : SchemaParser(cfg)
    \/ \E i \in DOMAIN tools :
         \E variables \in VariablesFor(tools[i].operation) :
           \E selectedFields \in ExecutionSelections
                 \cup {createDefaultSelection(tools[i].operation.field.type)} :
             Execution(i, variables, selectedFields)
    \/ \E operationName \in OperationNames \cup {"unknownOperation"} :
         \E selection \in SelectionInputs :
           ValidateOutputSelection(operationName, selection)
    \/ \E i \in DOMAIN operations :
         \E variables \in VariablesFor(operations[i]) :
           ValidateOperationArguments(operations[i].name, variables)
    \/ \E operationName \in UncompiledNames : \E variables \in {EmptyObj} :
         ValidateOperationArguments(operationName, variables)
    \/ \E operation \in RenderOperations :
         \E variables \in RenderVariables(operation.args) :
           \E fieldSelection \in RenderSelections :
             GenerateQueryString(operation, variables, fieldSelection)
    \/ Return

Spec == Init /\ [][Next]_vars

\* schemaParser and the calls of the tools it returns
NextExecution ==
    \/ ClearTypeSchemaCache
    \/ \E cfg \in Configs : SchemaParser(cfg)
    \/ \E i \in DOMAIN tools :
         \E variables \in VariablesFor(tools[i].operation) :
           \E selectedFields \in ExecutionSelections
                 \cup {createDefaultSelection(tools[i].operation.field.type)} :
             Execution(i, variables, selectedFields)
    \/ Return

ExecutionSpec == Init /\ [][NextExecution]_vars

\* schemaParser and the calls of the selection validator
NextSelection ==
    \/ ClearTypeSchemaCache
    \/ \E cfg \in Configs : SchemaParser(cfg)
    \/ \E operationName \in OperationNames \cup {"unknownOperation"} :
         \E selection \in SelectionInputs :
           ValidateOutputSelection(operationName, selection)
    \/ Return

SelectionSpec == Init /\ [][NextSelection]_vars

\* the calls of the renderer alone
NextRender ==
    \/ \E operation \in RenderOperations :
         \E variables \in RenderVariables(operation.args) :
           \E fieldSelection \in RenderSelections :
             GenerateQueryString(operation, variables, fieldSelection)
    \/ Return

RenderSpec == Init /\ [][NextRender]_vars

\* configurations whose limits cut the descents of both compilers: every
\* root type with depth 2, and the queries with depth 1 and three fields;
\* the subscriptions alone, and the mutations alone with depth 1
CompileConfigs ==
    Configs \cup
    { Config("true", "true", "true", "", "", "", "", 0, 0, 2, 0),
      Config("true", "false", "false", "", "", "", "", 0, 0, 1, 3),
      Config("false", "false", "true", "", "", "", "", 0, 0, 0, 0),
      Config("false", "true", "false", "", "", "", "", 0, 0, 1, 0) }

\* schemaParser alone, called again and again on the shared cache
NextCompile ==
    \/ ClearTypeSchemaCache
    \/ \E cfg \in CompileConfigs : SchemaParser(cfg)
    \/ Return

CompileSpec == Init /\ [][NextCompile]_vars

\* schemaParser and the calls of the argument validator
NextArguments ==
    \/ ClearTypeSchemaCache
    \/ \E cfg \in Configs : SchemaParser(cfg)
    \/ \E i \in DOMAIN operations :
         \E variables \in VariablesFor(operations[i]) :
           ValidateOperationArguments(operations[i].name, variables)
    \/ \E variables \in {EmptyObj} :
         ValidateOperationArguments("unknownOperation", variables)
    \/ Return

ArgumentSpec == Init /\ [][NextArguments]_vars

\* schemaParser and the calls of both validators
NextValidation ==
    \/ ClearTypeSchemaCache
    \/ \E cfg \in Configs : SchemaParser(cfg)
    \/ \E operationName \in OperationNames :
         \E selection \in FlatSelections :
           ValidateOutputSelection(operationName, selection)
    \/ \E operationName \in UncompiledNames :
         \E selection \in {EmptyObj, Obj1("id", JTrue)} :
           ValidateOutputSelection(operationName, selection)
    \/ \E i \in DOMAIN operations :
         \E variables \in VariablesFor(operations[i]) :
           ValidateOperationArguments(operations[i].name, variables)
    \/ \E operationName \in UncompiledNames : \E variables \in {EmptyObj} :
         ValidateOperationArguments(operationName, variables)
    \/ Return

ValidationSpec == Init /\ [][NextValidation]_vars

\* configurations that expose the three root types without prefixes, one
\* of them keeping one argument per operation
CapConfigs ==
    { Config("true", "true", "true", "", "", "", "", 0, 1, 0, 0),
      Config("true", "true", "true", "", "", "", "", 0, 0, 0, 0) }

\* schemaParser with these configurations and the calls of its tools
NextCaps ==
    \/ ClearTypeSchemaCache
    \/ \E cfg \in CapConfigs : SchemaParser(cfg)
    \/ \E i \in DOMAIN tools :
         \E variables \in VariablesFor(tools[i].operation) :
           \E selectedFields \in {EmptyObj, Obj1("id", JTrue)} :
             Execution(i, variables, selectedFields)
    \/ Return

CapSpec == Init /\ [][NextCaps]_vars

(***************************************************************************)
(* Properties of the renderer, checked under RenderSpec                    *)
(***************************************************************************)
Rendering == call.op = "generateQueryString"
Rendered == Rendering /\ call.result.ok

\* pieces occurs in text as a run of consecutive pieces
Occurs(pieces, text) ==
    \E i \in 0..(Len(text) - Len(pieces)) :
        SubSeq(text, i + 1, i + Len(pieces)) = pieces

\* the number of braces open at position i of a text
BraceDepth(text, i) ==
    Cardinality({j \in 1..(i - 1) : text[j] = "{"})
      - Cardinality({j \in 1..(i - 1) : text[j] = "}"})

\* the positions of the names a text has at a brace depth, in order
NamePositions(text, depth) ==
    LET at == {i \in DOMAIN text :
                 /\ BraceDepth(text, i) = depth
                 /\ text[i] \notin {" ", "{", "}", "...", "on", "(", ")",
                                    ",", ":", "$"}}
    IN  [k \in 1..Cardinality(at) |->
           CHOOSE i \in at : Cardinality({j \in at : j < i}) = k - 1]

NamesAt(text, depth) ==
    LET at == NamePositions(text, depth) IN [k \in DOMAIN at |-> text[at[k]]]

\* whether the k-th name at a depth stands in "... on <name>"
IsFragmentAt(text, depth, k) ==
    LET i == NamePositions(text, depth)[k]
    IN  i > 4 /\ SubSeq(text, i - 4, i - 1) = <<"...", " ", "on", " ">>

\* a nested mapping: an object, or an array as the mapping of its indices
IsMapping(value) == value.t \in {"object", "array"}

RECURSIVE RendersNonEmpty(_)
\* a mapping with a key valued true, or with a nested mapping that has one
RendersNonEmpty(value) ==
    /\ IsMapping(value)
    /\ \E i \in DOMAIN ObjectEntries(value) :
         \/ ObjectEntries(value)[i][2] = JTrue
         \/ RendersNonEmpty(ObjectEntries(value)[i][2])

\* the entries of a mapping the field list is to contain, in key order
KeptEntries(value) ==
    SelectSeq(ObjectEntries(value),
              LAMBDA e : e[2] = JTrue \/ RendersNonEmpty(e[2]))

RECURSIVE Mappings(_)
\* a mapping and the mappings nested in it
Mappings(value) ==
    IF ~IsMapping(value) THEN {}
    ELSE {value} \cup UNION { Mappings(ObjectEntries(value)[i][2]) :
                                i \in DOMAIN ObjectEntries(value) }

\* the keys of the selections that begin with an uppercase letter
UppercaseKeys == {"Dog", "Cat", "PostID"}

RECURSIVE DeclarationString(_)
\* "$a: T, $b: U" for the arguments, with the types as the schema writes them
DeclarationString(args) ==
    LET one == "$" \o Head(args).name \o ": " \o TypeString(Head(args).type)
    IN  IF Len(args) = 1 THEN one
        ELSE one \o ", " \o DeclarationString(Tail(args))

RECURSIVE BindingString(_)
\* "a: $a, b: $b" for the arguments
BindingString(args) ==
    LET one == Head(args).name \o ": $" \o Head(args).name
    IN  IF Len(args) = 1 THEN one
        ELSE one \o ", " \o BindingString(Tail(args))

\* C7: generateQueryString fails with the missing-required-variable error
\* that names the first declared argument absent from variables and of
\* non-null type; when every absent argument is nullable it returns (for an
\* operation of one of the three kinds), and the absent arguments are
\* declared in the signature and bound at the call site.
C7_MissingRequiredVariable ==
    Rendering =>
      LET args == call.operation.args
          absent(i) == ~HasKey(call.variables, args[i].name)
          required(i) == args[i].type.k = "nonnull"
      IN  /\ \A i \in DOMAIN args :
               ( /\ absent(i) /\ required(i)
                 /\ \A j \in 1..(i - 1) : ~(absent(j) /\ required(j)) )
               => call.result = Thrown("Missing required variable",
                                       args[i].name)
          /\ ( (\A i \in DOMAIN args : absent(i) => ~required(i))
               /\ call.operation.type \in {"query", "mutation", "subscription"} )
               => /\ call.result.ok
                  /\ \A i \in DOMAIN args :
                       absent(i) =>
                         /\ Occurs(<<"$", args[i].name, ":", " ",
                                     TypeString(args[i].type)>>,
                                   call.result.value)
                         /\ Occurs(<<args[i].name, ":", " ", "$",
                                     args[i].name>>, call.result.value)

\* search(limit: Int, query: String!, ids: [ID!]!) called with no variable:
\* the absent nullable limit is passed over and query is named, not ids
C7_Witness ==
    /\ Rendering
    /\ call.operation.name = "search"
    /\ call.variables = EmptyObj
    /\ call.result = Thrown("Missing required variable", "query")

\* touch(id: ID, at: DateTime) called with no variable returns
C7_WitnessNullable ==
    /\ Rendered
    /\ call.operation.name = "touch"
    /\ call.variables = EmptyObj

C8_WitnessNoArguments ==
    /\ Rendered
    /\ Flatten(call.result.value) = "query hello { hello }"

\* C9: the rendered field list of a selection, and of every mapping nested
\* in it, has in key order exactly the keys valued true and the keys whose
\* nested mapping renders non-empty; the call site has a "{ ... }" body
\* exactly when the field list is non-empty, and no "{ }" is emitted.
C9_FieldList ==
    Rendered =>
      LET text == call.result.value
          kept == IF Falsy(call.selection) THEN <<>>
                  ELSE KeptEntries(call.selection)
      IN  /\ NamesAt(text, 2) = [k \in DOMAIN kept |-> kept[k][1]]
          /\ (\E i \in DOMAIN text : text[i] = "{" /\ BraceDepth(text, i) = 1)
               <=> kept # <<>>
          /\ ~Occurs(<<"{", " ", " ", "}">>, text)
          /\ ~Occurs(<<"{", " ", "}">>, text)
          /\ \A m \in Mappings(call.selection) :
               NamesAt(buildFieldSelectionString(m), 0)
                 = [k \in DOMAIN KeptEntries(m) |-> KeptEntries(m)[k][1]]

\* { posts: { title: false }, id: true } renders the body "{ id }"
C9_Witness ==
    /\ Rendered
    /\ call.selection = Obj2("posts", Obj1("title", JFalse), "id", JTrue)
    /\ NamesAt(call.result.value, 2) = <<"id">>

C10_WitnessBare ==
    /\ Rendered
    /\ call.selection = Obj1("PostID", JTrue)
    /\ NamesAt(call.result.value, 2) = <<"PostID">>
    /\ ~Occurs(<<"...">>, call.result.value)

(***************************************************************************)
(* Properties of the tools, checked under ExecutionSpec                    *)
(***************************************************************************)
Executing == call.op = "execution"

\* the operation of the tool called, and the variables it validates
CalledOperation == tools[call.tool].operation
CalledVariables == IF call.variables = JUndef THEN EmptyObj ELSE call.variables

\* the variables pass the argument validator of the tool called
VariablesPass ==
    parse(inputSchema(tools[call.tool], validationSchemas), CalledVariables).ok

\* C1: for every tool and every variables object that passes argument
\* validation, execution with the selection {} or omitted returns the query
\* string that execution with the operation's default selection returns.
C1_EmptySelectionRendersDefault ==
    (Executing /\ VariablesPass /\ call.selection \in {JUndef, EmptyObj}) =>
      LET withDefault ==
            execution(CalledOperation, call.variables,
                      createDefaultSelection(CalledOperation.field.type),
                      validationSchemas)
      IN  /\ call.result.ok = withDefault.ok
          /\ call.result.ok =>
               call.result.value.query = withDefault.value.query

\* user called with { id: "123" } and {} returns the query without a body
C1_Witness ==
    /\ Executing
    /\ CalledOperation.name = "user"
    /\ call.variables = Obj1("id", JStr("123"))
    /\ call.selection = EmptyObj
    /\ call.result.ok
    /\ Flatten(call.result.value.query)
         = "query user($id: ID!) { user(id: $id) }"
    /\ createDefaultSelection(CalledOperation.field.type) # EmptyObj

\* C2: execution rejects, and returns no query string, whenever the selection
\* fails the selection validator of the tool's operation.
C2_InvalidSelectionRejected ==
    ( /\ Executing
      /\ ~parse(outputSchema(tools[call.tool], outputSelectionSchemas),
                call.selection).ok )
      => ~call.result.ok

\* user called with { id: "123" } and { id: true, bogus: true } returns a
\* query that selects bogus
C2_Witness ==
    /\ Executing
    /\ CalledOperation.name = "user"
    /\ call.variables = Obj1("id", JStr("123"))
    /\ call.selection = Obj2("id", JTrue, "bogus", JTrue)
    /\ ~parse(outputSchema(tools[call.tool], outputSelectionSchemas),
              call.selection).ok
    /\ call.result.ok
    /\ Flatten(call.result.value.query)
         = "query user($id: ID!) { user(id: $id) { id bogus } }"

\* C3: execution rejects, and returns no {query, variables} result, whenever
\* the variables fail the argument validator of the tool's operation.
C3_InvalidVariablesRejected ==
    (Executing /\ ~VariablesPass) =>
      /\ ~call.result.ok
      /\ call.result.error \in {"Missing required variable",
                                "Invalid type for variable",
                                "Validation failed for"}

\* createUser called with an input that lacks the required field email, and
\* rejected
C3_Witness ==
    /\ Executing
    /\ CalledOperation.name = "createUser"
    /\ call.variables = Obj1("input", Obj1("username", JStr("john")))
    /\ ~VariablesPass
    /\ ~call.result.ok

(***************************************************************************)
(* Properties of the selection validators, checked under SelectionSpec     *)
(***************************************************************************)
Validating ==
    /\ call.op = "validateOutputSelection"
    /\ call.name \in DOMAIN outputSelectionSchemas

\* the operations compiled under a name (the map keeps the last one)
CompiledAs(name) ==
    {i \in DOMAIN operations :
       /\ operations[i].name = name
       /\ i <= OrDefault(config.maxOperations, DefaultMaxOperations)}

\* the operation a validator of the map was compiled from
CompiledOperation(name) ==
    operations[CHOOSE i \in CompiledAs(name) : \A j \in CompiledAs(name) : j <= i]

RECURSIVE NamedTypeOf(_)
\* the named type under the NonNull and List wrappers of a type
NamedTypeOf(type) ==
    IF type.k \in {"nonnull", "list"} THEN NamedTypeOf(type.of) ELSE type

ObjectTypeNames == {n \in DOMAIN SchemaTypes : SchemaTypes[n].kind = "OBJECT"}

\* the wrappings of a return type the default selection unwraps
Wrappings(type) ==
    {type, NonNull(type), ListOf(type), NonNull(ListOf(type)),
     ListOf(NonNull(type)), NonNull(ListOf(NonNull(type)))}

\* the fields of an object type that declare a non-null argument
FieldsWithRequiredArgs(typeName) ==
    {f \in Range(SchemaTypes[typeName].fields) :
       \E a \in Range(f.args) : a.type.k = "nonnull"}

\* C4: a field of an object type T that declares a non-null argument is no
\* key of the default selection of an operation returning T, bare, non-null
\* or list-wrapped; so validating {} for such an operation never yields it.
C4_RequiredArgsExcluded ==
    /\ \A n \in ObjectTypeNames :
         \A type \in Wrappings(Named(n)) :
           \A f \in FieldsWithRequiredArgs(n) :
             ~HasKey(createDefaultSelection(type), f.name)
    /\ \A name \in DOMAIN outputSelectionSchemas :
         LET T == NamedTypeOf(CompiledOperation(name).field.type).name
         IN  T \in ObjectTypeNames =>
               \A f \in FieldsWithRequiredArgs(T) :
                 ~HasKey(outputSelectionSchemas[name].default, f.name)
    /\ (Validating /\ call.selection = EmptyObj /\ call.result.ok) =>
         LET T == NamedTypeOf(CompiledOperation(call.name).field.type).name
         IN  T \in ObjectTypeNames =>
               \A f \in FieldsWithRequiredArgs(T) :
                 ~HasKey(call.result.value, f.name)

\* {} validated for user: the default has nick, whose argument is nullable,
\* and neither posts nor hasPermission, whose arguments are required
C4_Witness ==
    /\ Validating
    /\ call.name = "user"
    /\ call.selection = EmptyObj
    /\ call.result.ok
    /\ HasKey(call.result.value, "nick")
    /\ ~HasKey(call.result.value, "hasPermission")
    /\ {f.name : f \in FieldsWithRequiredArgs("User")}
         = {"posts", "hasPermission"}

\* C5: for every compiled operation, validating a selection that is
\* undefined, null or {} succeeds and returns the operation's default.
C5_EmptySelectionsDefault ==
    (Validating /\ call.selection \in {JUndef, JNull, EmptyObj}) =>
      call.result = Returned(outputSelectionSchemas[call.name].default)

\* null validated for user, an operation returning an object type, and
\* rejected
C5_Witness ==
    /\ Validating
    /\ call.name = "user"
    /\ call.selection = JNull
    /\ ~call.result.ok

\* {} validated for hello, an operation returning a scalar, and rejected
C5_WitnessScalar ==
    /\ Validating
    /\ call.name = "hello"
    /\ call.selection = EmptyObj
    /\ ~call.result.ok

\* a key that is no field of the object type at its position, or a value
\* that is not a boolean for a scalar or enum field (undefined is an absent
\* value), at any level of a selection for the object type
RECURSIVE HasOffence(_, _)
HasOffence(selection, typeName) ==
    \E e \in Range(selection.o) :
      LET fields == {f \in Range(SchemaTypes[typeName].fields) : f.name = e[1]}
      IN  \/ fields = {}
          \/ \E f \in fields :
               LET T == NamedTypeOf(f.type).name
               IN  IF SchemaTypes[T].kind \in {"SCALAR", "ENUM"}
                   THEN e[2].t \notin {"boolean", "undefined"}
                   ELSE /\ SchemaTypes[T].kind = "OBJECT"
                        /\ e[2].t = "object"
                        /\ HasOffence(e[2], T)

\* the object schema of a validator, under .optional() and the defaulting
RECURSIVE ObjectSchemaOf(_)
ObjectSchemaOf(schema) ==
    IF schema.z \in {"optional", "effects"} THEN ObjectSchemaOf(schema.inner)
    ELSE schema

\* the placeholder z.object({}) put where a type is met again
IsPlaceholder(schema) ==
    ObjectSchemaOf(schema).z = "object" /\ ObjectSchemaOf(schema).shape = <<>>

\* HasOffence at a position the validator has compiled: not at or below a
\* placeholder
RECURSIVE HasCompiledOffence(_, _, _)
HasCompiledOffence(schema, selection, typeName) ==
    /\ ObjectSchemaOf(schema).z = "object"
    /\ ~IsPlaceholder(schema)
    /\ \E e \in Range(selection.o) :
         LET fields == {f \in Range(SchemaTypes[typeName].fields) :
                          f.name = e[1]}
             shape == ObjectSchemaOf(schema).shape
         IN  \/ fields = {}
             \/ \E f \in fields :
                  LET T == NamedTypeOf(f.type).name
                  IN  IF SchemaTypes[T].kind \in {"SCALAR", "ENUM"}
                      THEN e[2].t \notin {"boolean", "undefined"}
                      ELSE /\ SchemaTypes[T].kind = "OBJECT"
                           /\ e[2].t = "object"
                           /\ \E i \in DOMAIN shape :
                                /\ shape[i][1] = e[1]
                                /\ HasCompiledOffence(shape[i][2], e[2], T)

\* a non-empty selection validated for an operation returning an object type
ValidatingObjectSelection ==
    /\ Validating
    /\ call.selection.t = "object"
    /\ call.selection # EmptyObj
    /\ NamedTypeOf(CompiledOperation(call.name).field.type).name
         \in ObjectTypeNames

ValidatedType == NamedTypeOf(CompiledOperation(call.name).field.type).name

\* C6 as stated: validating a non-empty selection for an operation returning
\* an object type fails whenever the selection has, at any nesting level, an
\* unknown key or a non-boolean value for a scalar or enum field.
C6_AnyLevelRejected ==
    (ValidatingObjectSelection /\ HasOffence(call.selection, ValidatedType))
      => ~call.result.ok

\* C6 amended: it fails whenever the selection has such a key or value at
\* the top level or at a nested position that is not at or below a
\* placeholder of the compiled validator.
C6_CompiledLevelsRejected ==
    ( /\ ValidatingObjectSelection
      /\ HasCompiledOffence(outputSelectionSchemas[call.name], call.selection,
                            ValidatedType) )
      => ~call.result.ok

\* { friends: { bogus: true } } validated for user and accepted: friends is
\* a User met again under User
C6_WitnessPlaceholder ==
    /\ ValidatingObjectSelection
    /\ call.name = "user"
    /\ call.selection = Obj1("friends", Obj1("bogus", JTrue))
    /\ call.result.ok

\* { posts: { bogus: true } } validated for user and rejected
C6_Witness ==
    /\ ValidatingObjectSelection
    /\ call.name = "user"
    /\ call.selection = Obj1("posts", Obj1("bogus", JTrue))
    /\ HasCompiledOffence(outputSelectionSchemas[call.name], call.selection,
                          ValidatedType)
    /\ ~call.result.ok

(***************************************************************************)
(* Properties of the two compilers, checked under CompileSpec              *)
(***************************************************************************)
Compiled == call.op = "schemaParser"

\* the depth limit in force in the last schemaParser call
MaxSchemaDepthInForce == validationOptions(config).maxSchemaDepth

\* the deepest levels the two compilations of schemaParser(cfg) reach when
\* they start on a given cache
Descents(cfg, cache) ==
    LET ops == extractOperationsFromSchema(cfg)
        options == validationOptions(cfg)
        v == generateValidationSchemas(ops, options, cache)
        o == generateOutputSelectionSchemas(ops, options, v.cache)
    IN  [input |-> v.deepest, output |-> o.deepest]

\* C11: compiling the argument validators and the selection validators
\* returns for every configuration and every content of the cache, on a
\* schema with cyclic object types and self-referencing and mutually
\* recursive input types, and neither descent goes deeper than
\* maxSchemaDepth + 1 levels.  Every recursive call is one level deeper, so
\* the bound on the depth is the termination measure.
C11_DescentBounded ==
    /\ \A cfg \in CompileConfigs :
         LET d == Descents(cfg, typeSchemaCache)
             limit == validationOptions(cfg).maxSchemaDepth + 1
         IN  d.input \in 0..limit /\ d.output \in 0..limit
    /\ Compiled =>
         /\ call.deepest.input <= MaxSchemaDepthInForce + 1
         /\ call.deepest.output <= MaxSchemaDepthInForce + 1

\* every root type compiled with depth limit 2: user returns User (User ->
\* Post -> User), userAdded takes a Filter (Filter -> Filter, UserRef ->
\* TaskRef -> UserRef), and both descents have reached level 3
C11_Witness ==
    /\ Compiled
    /\ MaxSchemaDepthInForce = 2
    /\ "user" \in DOMAIN outputSelectionSchemas
    /\ "userAdded" \in DOMAIN validationSchemas
    /\ call.deepest = [input |-> 3, output |-> 3]

\* the default depth limit: the cycles are cut by the visited types, well
\* before level 11
C11_WitnessCycle ==
    /\ Compiled
    /\ MaxSchemaDepthInForce = DefaultMaxSchemaDepth
    /\ "subscriptionuserAdded" \in DOMAIN validationSchemas
    /\ call.deepest.input < DefaultMaxSchemaDepth
    /\ call.deepest.output < DefaultMaxSchemaDepth

(***************************************************************************)
(* Properties of the default selection, checked under SelectionSpec        *)
(***************************************************************************)
\* a field that declares no non-null argument and whose type is a scalar or
\* an enum, or a list of one, each possibly non-null
IsAutoSelected(f) ==
    /\ \A a \in Range(f.args) : a.type.k # "nonnull"
    /\ \E n \in DOMAIN SchemaTypes :
         /\ SchemaTypes[n].kind \in {"SCALAR", "ENUM"}
         /\ f.type \in Wrappings(Named(n))

\* {f: true} over those fields of a type, in field order; a type without
\* fields gives {}
ExpectedDefault(typeName) ==
    LET fs == SelectSeq(SchemaTypes[typeName].fields, IsAutoSelected)
    IN  JObj([i \in DOMAIN fs |-> <<fs[i].name, JTrue>>])

\* C12: the default selection of every compiled operation is exactly
\* {f: true} over the fields f of the named type under the wrappers of its
\* return type that declare no non-null argument and are scalars, enums, or
\* lists of them; no object or union field is a key, every value is true.
C12_DefaultSelectionExact ==
    \A name \in DOMAIN outputSelectionSchemas :
      outputSelectionSchemas[name].default =
        ExpectedDefault(NamedTypeOf(CompiledOperation(name).field.type).name)

\* the same for the operations whose return type has at most one list level
C12_DefaultSelectionOneList ==
    \A name \in DOMAIN outputSelectionSchemas :
      LET type == CompiledOperation(name).field.type
      IN  type \in Wrappings(NamedTypeOf(type)) =>
            outputSelectionSchemas[name].default
              = ExpectedDefault(NamedTypeOf(type).name)

\* {} validated for userGroups, which returns [[User!]!]!: the validator is
\* the one of User, and the default returned is {} although User has scalar
\* fields without arguments
C12_Witness ==
    /\ Validating
    /\ call.name = "subscriptionuserGroups"
    /\ call.selection = EmptyObj
    /\ call.result = Returned(EmptyObj)
    /\ ObjectSchemaOf(outputSelectionSchemas[call.name]).shape # <<>>
    /\ ExpectedDefault("User") # EmptyObj

(***************************************************************************)
(* Properties of the fields that take arguments, under SelectionSpec       *)
(***************************************************************************)
RECURSIVE WrapperCount(_)
\* the number of NonNull and List wrappers of a type
WrapperCount(type) ==
    IF type.k \in {"nonnull", "list"} THEN 1 + WrapperCount(type.of) ELSE 0

FieldsWithArgs(typeName) ==
    {f \in Range(SchemaTypes[typeName].fields) : f.args # <<>>}

IsLeafType(typeName) == SchemaTypes[typeName].kind \in {"SCALAR", "ENUM"}

\* the scalar and enum fields of a type among its first n fields
LeafFields(typeName, n) ==
    {g \in Range(SliceTo(SchemaTypes[typeName].fields, n)) :
       IsLeafType(NamedTypeOf(g.type).name)}

\* the explicit selections of one field: true for a scalar or enum field,
\* {g: true} over a scalar or enum field g of its type (among the first n)
\* for a field of an object type
ExplicitSelections(f, n) ==
    LET U == NamedTypeOf(f.type).name
    IN  IF IsLeafType(U) THEN {Obj1(f.name, JTrue)}
        ELSE {Obj1(f.name, Obj1(g.name, JTrue)) : g \in LeafFields(U, n)}

\* the validated selection is returned and its rendering names the field
PassesAndRenders(f) ==
    /\ call.result.ok
    /\ f.name \in Range(NamesAt(buildFieldSelectionString(call.result.value), 0))

\* the field cap schemaParser passes to both compilers
FieldCapInForce == validationOptions(config).maxFields

\* the selection validators of the configuration in force as a cleared
\* cache gives them
FreshValidators ==
    LET ops == extractOperationsFromSchema(config)
        options == validationOptions(config)
        v == generateValidationSchemas(ops, options, EmptyCache)
    IN  generateOutputSelectionSchemas(ops, options, v.cache).schemas

FreshlyCompiled == outputSelectionSchemas = FreshValidators

C13_WitnessRevisit ==
    /\ ValidatingObjectSelection
    /\ call.name = "user"
    /\ call.selection = Obj1("friends", Obj1("id", JTrue))
    /\ call.result = Returned(Obj1("friends", EmptyObj))
    /\ buildFieldSelectionString(call.result.value) = <<>>

(***************************************************************************)
(* Properties of the wrappers of a return type, under SelectionSpec        *)
(***************************************************************************)
ReturnType(name) == CompiledOperation(name).field.type

\* the compiled operations that return the bare object type of which the
\* return type of an operation is a wrapped form T!, [T] or [T!]!
BareCounterparts(name) ==
    LET T == NamedTypeOf(ReturnType(name))
    IN  {a \in DOMAIN outputSelectionSchemas :
           /\ T.name \in ObjectTypeNames
           /\ ReturnType(a) = T
           /\ ReturnType(name)
                \in {NonNull(T), ListOf(T), NonNull(ListOf(NonNull(T)))}}

\* C14: the validator of an operation returning T!, [T] or [T!]! accepts
\* the same selections, with the same results, as the validator of an
\* operation returning the object type T.
C14_WrappersTransparent ==
    Validating =>
      \A a \in BareCounterparts(call.name) :
        LET r == validateOutputSelection(a, call.selection,
                                         outputSelectionSchemas)
        IN  /\ r.ok = call.result.ok
            /\ r.ok => r.value = call.result.value

\* the default configuration on a cleared cache: users returns [User!]!,
\* user returns User; { posts: { comments: { text: true } } } is rejected
\* for users and accepted for user
C14_Witness ==
    /\ Validating
    /\ call.name = "users"
    /\ config = defaultConfig
    /\ FreshlyCompiled
    /\ "user" \in BareCounterparts("users")
    /\ call.selection = Obj1("posts", Obj1("comments", Obj1("text", JTrue)))
    /\ ~call.result.ok
    /\ validateOutputSelection("user", call.selection, outputSelectionSchemas)
         = Returned(call.selection)

(***************************************************************************)
(* Properties of the union return types, under SelectionSpec               *)
(***************************************************************************)
UnionTypeNames == {n \in DOMAIN SchemaTypes : SchemaTypes[n].kind = "UNION"}

\* a selection over the scalar and enum fields of an object type, with
\* boolean values
IsLeafSelection(selection, typeName) ==
    /\ selection.t = "object"
    /\ \A e \in Range(selection.o) :
         /\ e[2].t = "boolean"
         /\ \E g \in LeafFields(typeName, Len(SchemaTypes[typeName].fields)) :
              g.name = e[1]

\* a non-empty mapping whose keys are member type names, each holding a
\* selection over that member's fields, plus an optional boolean __typename
IsUnionSelection(selection, unionName) ==
    /\ selection.t = "object"
    /\ selection # EmptyObj
    /\ \A e \in Range(selection.o) :
         \/ e[1] = "__typename" /\ e[2].t = "boolean"
         \/ /\ e[1] \in Range(SchemaTypes[unionName].members)
            /\ IsLeafSelection(e[2], e[1])

\* a mapping with a field of a member type as a top-level key
HasMemberFieldOnTop(selection, unionName) ==
    /\ selection.t = "object"
    /\ \E e \in Range(selection.o) :
         \E m \in Range(SchemaTypes[unionName].members) :
           \E g \in Range(SchemaTypes[m].fields) : g.name = e[1]

\* C15: for an operation returning a union type, the selection validator
\* accepts a mapping keyed by member type names (each with a selection over
\* that member's fields) and an optional boolean __typename, and rejects a
\* member's field used as a top-level key.
C15_UnionSelections ==
    (Validating /\ NamedTypeOf(ReturnType(call.name)).name \in UnionTypeNames)
      => LET U == NamedTypeOf(ReturnType(call.name)).name
         IN  /\ IsUnionSelection(call.selection, U)
                  => call.result = Returned(call.selection)
             /\ HasMemberFieldOnTop(call.selection, U) => ~call.result.ok

\* { __typename: true, Dog: { breed: true } } validated for pet, which
\* returns the union Pet = Dog | Cat, and rejected: the validator of pet is
\* the optional boolean
C15_Witness ==
    /\ Validating
    /\ call.name = "pet"
    /\ SchemaTypes["Pet"].members = <<"Dog", "Cat">>
    /\ call.selection = Obj2("__typename", JTrue, "Dog", Obj1("breed", JTrue))
    /\ IsUnionSelection(call.selection, "Pet")
    /\ ~call.result.ok
    /\ ObjectSchemaOf(outputSelectionSchemas["pet"]) = ZBoolean

(***************************************************************************)
(* Properties of the argument validators, checked under ArgumentSpec       *)
(***************************************************************************)
ValidatingArguments ==
    /\ call.op = "validateOperationArguments"
    /\ call.name \in DOMAIN validationSchemas

EnumTypeNames == {n \in DOMAIN SchemaTypes : SchemaTypes[n].kind = "ENUM"}

\* lists of declared values: none, one, two, three
EnumValueLists ==
    { <<>>, <<"ONLY">>, <<"DRAFT", "PUBLISHED">>,
      <<"ADMIN", "USER", "MODERATOR">> }

\* strings offered to an enum validator
EnumStrings ==
    {"DRAFT", "PUBLISHED", "ONLY", "ADMIN", "USER", "MODERATOR", "draft",
     "INVALID_ROLE", ""}

\* the strings an enum with these declared values is to accept
Accepted(values, string) == values = <<>> \/ string \in Range(values)

\* the field of Filter a variables object {filter: {k: string}} sets
FilterEnumFields ==
    {f \in Range(SchemaTypes["Filter"].fields) :
       NamedTypeOf(f.type).name \in EnumTypeNames}

\* C16: the validator compiled for an enum with two or more values accepts
\* exactly the declared value strings; with one value only that value; with
\* no value any string.  It is so for the enum branch on every list of
\* values, for every enum type of the schema compiled on the cache as it
\* is, and for the enum fields of an argument that is validated.
C16_EnumValidator ==
    /\ \A values \in EnumValueLists : \A string \in EnumStrings :
         parse(EnumSchema(values), JStr(string)).ok = Accepted(values, string)
    /\ \A n \in EnumTypeNames : \A string \in EnumStrings :
         parse(graphqlTypeToZodSchema(Named(n), {}, 0, validationOptions(config),
                                      typeSchemaCache).schema,
               JStr(string)).ok
           = Accepted(SchemaTypes[n].values, string)
    /\ ValidatingArguments =>
         \A f \in FilterEnumFields : \A string \in EnumStrings :
           call.variables = Obj1("filter", Obj1(f.name, JStr(string)))
             => call.result.ok
                  = Accepted(SchemaTypes[NamedTypeOf(f.type).name].values,
                             string)

\* { filter: { status: "draft" } } validated for userAdded(filter: Filter),
\* status being of the enum Status with the values DRAFT and PUBLISHED, and
\* rejected
C16_Witness ==
    /\ ValidatingArguments
    /\ call.name = "subscriptionuserAdded"
    /\ call.variables = Obj1("filter", Obj1("status", JStr("draft")))
    /\ SchemaTypes["Status"].values = <<"DRAFT", "PUBLISHED">>
    /\ ~call.result.ok

\* { filter: { kind: "ONLY" } } validated and returned, kind being of the
\* enum Single with the one value ONLY
C16_WitnessSingle ==
    /\ ValidatingArguments
    /\ call.name = "subscriptionuserAdded"
    /\ call.variables = Obj1("filter", Obj1("kind", JStr("ONLY")))
    /\ call.result = Returned(call.variables)

(***************************************************************************)
(* Properties of the two validation functions, under ValidationSpec        *)
(***************************************************************************)
\* C17: asked for a name that has no compiled schema, both functions fail
\* with the unknown-operation error; for a compiled name they return the
\* parsed value, or fail with the validation error naming the operation.
C17_UnknownOperation ==
    /\ call.op = "validateOutputSelection" =>
         IF call.name \notin DOMAIN outputSelectionSchemas
         THEN call.result
                = Thrown("No output schema found for operation", call.name)
         ELSE LET r == parse(outputSelectionSchemas[call.name], call.selection)
              IN  call.result
                    = IF r.ok THEN Returned(r.val)
                      ELSE Thrown("Output selection validation failed for",
                                  call.name)
    /\ call.op = "validateOperationArguments" =>
         IF call.name \notin DOMAIN validationSchemas
         THEN call.result
                = Thrown("No validation schema found for operation", call.name)
         ELSE LET r == parse(validationSchemas[call.name], call.variables)
              IN  call.result
                    = IF r.ok THEN Returned(r.val)
                      ELSE Thrown("Validation failed for", call.name)

\* validateOperationArguments('constructor', {}, validationSchemas): no
\* schema was compiled under that name, and the error is the validation
\* error
C17_Witness ==
    /\ call.op = "validateOperationArguments"
    /\ call.name = "constructor"
    /\ call.name \notin DOMAIN validationSchemas
    /\ call.variables = EmptyObj
    /\ call.result = Thrown("Validation failed for", "constructor")

\* the same for 'unknownOperation', a name no object inherits: the
\* unknown-operation error
C17_WitnessUnknown ==
    /\ call.op = "validateOutputSelection"
    /\ call.name = "unknownOperation"
    /\ call.result
         = Thrown("No output schema found for operation", "unknownOperation")

\* C17 for the names that are no member of Object.prototype
C17_UnknownOrdinaryName ==
    ( /\ call.op \in {"validateOutputSelection", "validateOperationArguments"}
      /\ call.name \notin ObjectPrototypeMembers )
      => C17_UnknownOperation

(***************************************************************************)
(* Properties of the ignore phrase, checked under CompileSpec              *)
(***************************************************************************)
\* the names of the tools schemaParser returned, in order
ToolNames == [i \in DOMAIN tools |-> tools[i].name]

\* the prefixed names of the fields of a root type whose description does
\* not contain a phrase
KeptNames(root, prefix, phrase) ==
    LET kept == SelectSeq(SchemaTypes[root].fields,
                          LAMBDA f : phrase \notin Range(f.description))
    IN  [i \in DOMAIN kept |-> prefix \o kept[i].name]

\* the same over the root types a configuration enables (queries unless
\* switched off, mutations and subscriptions when switched on), up to the
\* operation cap
ExpectedToolNames(cfg, phrase) ==
    SliceTo(
      (IF cfg.query # "false"
       THEN KeptNames("Query", cfg.queryPrefix, phrase) ELSE <<>>)
      \o (IF cfg.mutation = "true"
          THEN KeptNames("Mutation", cfg.mutationPrefix, phrase) ELSE <<>>)
      \o (IF cfg.subscription = "true"
          THEN KeptNames("Subscription", cfg.subscriptionPrefix, phrase)
          ELSE <<>>),
      OrDefault(cfg.maxOperations, DefaultMaxOperations))

\* the phrase the documentation gives as the default
DocumentedIgnorePhrase == "NO_MCP_TOOL"

\* C18: the tools are exactly the enabled root fields whose description
\* does not contain the ignore phrase, the phrase being "NO_MCP_TOOL" with
\* the default configuration and with a configuration that leaves
\* ignorePhrase unset, and P with ignorePhrase set to P.
C18_IgnorePhrase ==
    Compiled =>
      ToolNames
        = ExpectedToolNames(config,
            IF config = defaultConfig \/ config.ignorePhrase = ""
            THEN DocumentedIgnorePhrase ELSE config.ignorePhrase)

\* the part for a configuration other than the default one that sets
\* ignorePhrase
C18_SetPhrase ==
    (Compiled /\ config # defaultConfig /\ config.ignorePhrase # "")
      => ToolNames = ExpectedToolNames(config, config.ignorePhrase)

\* schemaParser(schema) with the default configuration: secret, whose
\* description contains NO_MCP_TOOL, has a tool
C18_Witness ==
    /\ Compiled
    /\ config = defaultConfig
    /\ \E f \in Range(SchemaTypes["Query"].fields) :
         /\ f.name = "secret"
         /\ DocumentedIgnorePhrase \in Range(f.description)
    /\ "secret" \in Range(ToolNames)

\* ignorePhrase set to NO_MCP_TOOL: secret has no tool
C18_WitnessSet ==
    /\ Compiled
    /\ config.ignorePhrase = DocumentedIgnorePhrase
    /\ "secret" \notin Range(ToolNames)
    /\ "hello" \in Range(ToolNames)

(***************************************************************************)
(* Properties of the shared type cache, checked under CompileSpec          *)
(***************************************************************************)
\* the argument validators of the configuration in force as a cleared
\* cache gives them
FreshArgumentValidators ==
    generateValidationSchemas(extractOperationsFromSchema(config),
                              validationOptions(config), EmptyCache).schemas

\* C19: the argument validators and the selection validators schemaParser
\* compiles are the ones it compiles right after clearTypeSchemaCache,
\* whatever earlier compilations left in the cache.
C19_CacheTransparent ==
    Compiled =>
      /\ validationSchemas = FreshArgumentValidators
      /\ outputSelectionSchemas = FreshValidators

\* the same for the argument validators alone
C19_ArgumentCacheTransparent ==
    Compiled => validationSchemas = FreshArgumentValidators

\* a compilation whose selection validator for an operation is not the one
\* a cleared cache gives, which the cache an earlier compilation left
\* behind alone can cause
C19_Witness ==
    /\ Compiled
    /\ \E name \in DOMAIN outputSelectionSchemas :
         outputSelectionSchemas[name] # FreshValidators[name]

\* the same for an argument validator
C19_WitnessArguments ==
    /\ Compiled
    /\ \E name \in DOMAIN validationSchemas :
         validationSchemas[name] # FreshArgumentValidators[name]

(***************************************************************************)
(* Properties of one compilation run, checked under CompileSpec            *)
(***************************************************************************)
\* the validators of one operation compiled on its own on a cleared cache:
\* every placeholder in them comes from the operation's own descent
OwnSelectionValidator(operation) ==
    generateOutputSelectionSchemas(<<operation>>, validationOptions(config),
                                   EmptyCache).schemas[operation.name]

OwnArgumentValidator(operation) ==
    generateValidationSchemas(<<operation>>, validationOptions(config),
                              EmptyCache).schemas[operation.name]

\* the run started on a cleared cache
FreshRun ==
    /\ Compiled
    /\ validationSchemas = FreshArgumentValidators
    /\ outputSelectionSchemas = FreshValidators

\* C20: in a run that starts on a cleared cache the validators of every
\* operation that gets a tool are the ones its own descent gives,
\* whichever operations were compiled before it.
C20_OrderIndependent ==
    FreshRun =>
      \A i \in DOMAIN tools :
        /\ outputSelectionSchemas[tools[i].name]
             = OwnSelectionValidator(tools[i].operation)
        /\ validationSchemas[tools[i].name]
             = OwnArgumentValidator(tools[i].operation)

\* the same for the argument validators alone, of the tools whose name no
\* other tool has
C20_ArgumentOrderIndependent ==
    FreshRun =>
      \A i \in DOMAIN tools :
        (\A j \in DOMAIN tools : tools[j].name = tools[i].name => j = i) =>
          validationSchemas[tools[i].name]
            = OwnArgumentValidator(tools[i].operation)

\* the default configuration on a cleared cache: getPosts is compiled after
\* users, whose descent left output_User_3 in the cache.  Post.author takes
\* it, and with it the fields of Post under author.posts, where getPosts'
\* own descent revisits Post: the selection { author: { posts: { bogus:
\* true } } } is rejected, and accepted by the validator of getPosts
\* compiled first
C20_Witness ==
    /\ FreshRun
    /\ config = defaultConfig
    /\ \E i \in DOMAIN tools :
         LET selection == Obj1("author", Obj1("posts", Obj1("bogus", JTrue)))
         IN  /\ tools[i].name = "getPosts"
             /\ \E j \in 1..(i - 1) : tools[j].name = "users"
             /\ ~parse(outputSelectionSchemas["getPosts"], selection).ok
             /\ parse(OwnSelectionValidator(tools[i].operation), selection).ok

\* the operations of the configuration in force in the opposite order, as
\* for a schema that declares its root fields the other way round
ReversedOperations ==
    [i \in DOMAIN operations |-> operations[Len(operations) + 1 - i]]

\* with getPosts compiled before users, output_User_3 is compiled below
\* Post and holds the placeholder of the revisit of Post under posts; the
\* validator of users takes it from the cache at a position that is not a
\* revisit in its own descent and accepts { posts: { bogus: true } }
C20_WitnessPlaceholder ==
    /\ FreshRun
    /\ config = defaultConfig
    /\ \E i \in DOMAIN tools :
         LET selection == Obj1("posts", Obj1("bogus", JTrue))
             reversed == generateOutputSelectionSchemas(ReversedOperations,
                             validationOptions(config), EmptyCache).schemas
         IN  /\ tools[i].name = "users"
             /\ parse(reversed["users"], selection).ok
             /\ ~parse(outputSelectionSchemas["users"], selection).ok
             /\ outputSelectionSchemas["users"]
                  = OwnSelectionValidator(tools[i].operation)

(***************************************************************************)
(* Properties of the limits, checked under CapSpec                         *)
(***************************************************************************)
\* the operation of the tool called declares more arguments than the
\* argument validator keeps
DeclaresMoreThanCap ==
    Len(CalledOperation.args) > validationOptions(config).maxOperationArgs

\* the validator of every declared argument of an operation, none cut
AllArgumentsValidator(operation) ==
    generateValidationSchemas(
      <<operation>>,
      [validationOptions(config) EXCEPT
         !.maxOperationArgs = Len(operation.args)],
      EmptyCache).schemas[operation.name]

\* the variables give every declared argument a value of its type
EveryArgumentGiven ==
    /\ CalledVariables.t = "object"
    /\ \A i \in DOMAIN CalledOperation.args :
         HasKey(CalledVariables, CalledOperation.args[i].name)
    /\ parse(AllArgumentsValidator(CalledOperation), CalledVariables).ok

\* C21: for an operation that declares more arguments than maxOperationArgs,
\* execution called with a correctly typed value for every declared argument
\* returns a query string and variables.
C21_CapKeepsValidCall ==
    (Executing /\ DeclaresMoreThanCap /\ EveryArgumentGiven) =>
      call.result.ok

\* add(a: Int!, b: Int!) under maxOperationArgs 1, called with { a: 5, b: 10 }:
\* the validator keeps a alone, b is stripped, and the renderer misses b
C21_Witness ==
    /\ Executing
    /\ DeclaresMoreThanCap
    /\ EveryArgumentGiven
    /\ CalledOperation.name = "add"
    /\ call.variables = Obj2("a", JInt(5), "b", JInt(10))
    /\ call.result = Thrown("Missing required variable", "b")

\* an optional argument beyond the limit is stripped too, and the call
\* returns without it
C21_WitnessOptional ==
    /\ Executing
    /\ DeclaresMoreThanCap
    /\ EveryArgumentGiven
    /\ CalledOperation.name = "searchUsers"
    /\ call.variables = Obj2("query", JStr("q"), "limit", JInt(5))
    /\ call.result.ok
    /\ call.result.value.variables = Obj1("query", JStr("q"))

(***************************************************************************)
(* Properties of the argument validators, checked under CompileSpec        *)
(***************************************************************************)
\* the validator both compilers return past maxSchemaDepth
DepthPlaceholder == ZOptional(ZAny)

\* an object validator accepts a mapping without the key: the key's validator
\* accepts undefined
MayBeOmitted(schema) == parse(schema, JUndef).ok

\* the entry of a shape under a key
ShapeEntry(shape, key) ==
    shape[CHOOSE i \in DOMAIN shape : shape[i][1] = key][2]

ShapeKeys(shape) == {shape[i][1] : i \in DOMAIN shape}

RECURSIVE InputObjectKeys(_, _)
\* the keys of the input-object validators inside the validator compiled for
\* a declared type, at any depth, each with its declared type and validator
InputObjectKeys(type, schema) ==
    CASE schema.z = "optional" -> InputObjectKeys(type, schema.inner)
      [] schema.z # "optional" /\ type.k = "nonnull" ->
           InputObjectKeys(type.of, schema)
      [] schema.z = "array" /\ type.k = "list" ->
           InputObjectKeys(type.of, schema.item)
      [] schema.z = "object" /\ type.k = "named" ->
           LET fields == getFields(type)
               compiled == {i \in DOMAIN fields :
                              fields[i].name \in ShapeKeys(schema.shape)}
           IN  UNION { LET entry == ShapeEntry(schema.shape, fields[i].name)
                       IN  {[type |-> fields[i].type, schema |-> entry,
                             name |-> fields[i].name, depth |-> "nested"]}
                             \cup InputObjectKeys(fields[i].type, entry)
                       : i \in compiled }
      [] OTHER -> {}

\* the keys of the argument validator of an operation and of the
\* input-object validators inside it
ArgumentKeysOf(operation) ==
    LET shape == validationSchemas[operation.name].shape
        compiled == {i \in DOMAIN operation.args :
                       operation.args[i].name \in ShapeKeys(shape)}
    IN  UNION { LET entry == ShapeEntry(shape, operation.args[i].name)
                IN  {[type |-> operation.args[i].type, schema |-> entry,
                      name |-> operation.args[i].name, depth |-> "top"]}
                      \cup InputObjectKeys(operation.args[i].type, entry)
                : i \in compiled }

\* the keys of every argument validator of the last compilation
ArgumentKeys ==
    UNION { ArgumentKeysOf(CompiledOperation(name))
            : name \in DOMAIN validationSchemas }

C22_WitnessRequiredNested ==
    /\ Compiled
    /\ validationSchemas = FreshArgumentValidators
    /\ \E key \in ArgumentKeys :
         key.name = "username" /\ key.depth = "nested"
         /\ isNonNullType(key.type) /\ ~MayBeOmitted(key.schema)

(***************************************************************************)
(* Properties of the validated selection, checked under SelectionSpec      *)
(***************************************************************************)
RECURSIVE SameSelection(_, _)
\* two selections with the same keys and the same values at every level,
\* whatever the order of the keys
SameSelection(a, b) ==
    IF a.t = "object" /\ b.t = "object"
    THEN /\ Range(ObjectKeys(a)) = Range(ObjectKeys(b))
         /\ \A k \in Range(ObjectKeys(a)) :
              SameSelection(GetProp(a, k), GetProp(b, k))
    ELSE a = b

RECURSIVE KeptSelection(_, _)
\* out has no key and no value that in does not have at the same place
KeptSelection(out, in) ==
    IF out.t = "object" /\ in.t = "object"
    THEN /\ Range(ObjectKeys(out)) \subseteq Range(ObjectKeys(in))
         /\ \A k \in Range(ObjectKeys(out)) :
              KeptSelection(GetProp(out, k), GetProp(in, k))
    ELSE out = in

RECURSIVE StrictAlong(_, _)
\* every non-empty mapping of the selection meets a strict object of the
\* validator: none sits at a placeholder z.object({})
StrictAlong(schema, selection) ==
    CASE schema.z \in {"optional", "effects"} ->
           StrictAlong(schema.inner, selection)
      [] schema.z = "object" /\ selection.t = "object" ->
           /\ schema.strict \/ selection = EmptyObj
           /\ \A i \in DOMAIN schema.shape :
                HasKey(selection, schema.shape[i][1]) =>
                  StrictAlong(schema.shape[i][2],
                              GetProp(selection, schema.shape[i][1]))
      [] OTHER -> TRUE

\* a non-empty mapping was validated and accepted
AcceptedSelection ==
    /\ Validating
    /\ call.selection.t = "object"
    /\ call.selection # EmptyObj
    /\ call.result.ok

\* C23 as stated: for any non-empty selection accepted by an operation's
\* selection validator, the returned selection equals the input selection.
C23_ReturnedEqualsInput ==
    AcceptedSelection => SameSelection(call.result.value, call.selection)

\* C23: for any non-empty selection accepted by an operation's selection
\* validator, the returned selection has no key and no value that the input
\* does not have at the same place, false entries included, and it equals
\* the input unless the input has a non-empty mapping where the validator
\* holds the placeholder z.object({}).
C23_ReturnedEqualsInputAtStrict ==
    AcceptedSelection =>
      /\ KeptSelection(call.result.value, call.selection)
      /\ StrictAlong(outputSelectionSchemas[call.name], call.selection) =>
           SameSelection(call.result.value, call.selection)

\* { id: true, name: false } accepted and returned with its false entry, and
\* a nested selection returned as given
C23_Witness ==
    /\ AcceptedSelection
    /\ call.selection = Obj2("id", JTrue, "name", JFalse)
    /\ call.result.value = call.selection

C23_WitnessNested ==
    /\ AcceptedSelection
    /\ call.selection = Obj1("posts", Obj1("title", JTrue))
    /\ StrictAlong(outputSelectionSchemas[call.name], call.selection)
    /\ call.result.value = call.selection

\* user: User with { posts: { author: { id: true } } }: User is met again
\* under posts.author, the placeholder accepts the mapping and returns it
\* empty
C23_WitnessDropped ==
    /\ AcceptedSelection
    /\ call.name = "user"
    /\ call.selection = Obj1("posts", Obj1("author", Obj1("id", JTrue)))
    /\ ~StrictAlong(outputSelectionSchemas[call.name], call.selection)
    /\ call.result.value = Obj1("posts", Obj1("author", EmptyObj))

(***************************************************************************)
(* Properties of tools that share a name, checked under CapSpec            *)
(***************************************************************************)
\* the field names a selection validator holds at its top level
TopLevelKeys(schema) ==
    CASE schema.z \in {"optional", "effects"} ->
           IF schema.inner.z = "optional" /\ schema.inner.inner.z = "object"
           THEN ShapeKeys(schema.inner.inner.shape)
           ELSE {}
      [] OTHER -> {}

\* the field names of the object type under the wrappers of a return type
ReturnTypeFields(type) ==
    IF isObjectType(NamedTypeOf(type))
    THEN {getFields(NamedTypeOf(type))[i].name
            : i \in DOMAIN getFields(NamedTypeOf(type))}
    ELSE {}

\* tool i has the validators of its own operation, and the call in progress
\* gives what validation by its own argument validator gives
OwnValidators(i) ==
    /\ inputSchema(tools[i], validationSchemas)
         = OwnArgumentValidator(tools[i].operation)
    /\ TopLevelKeys(outputSchema(tools[i], outputSelectionSchemas))
         \subseteq ReturnTypeFields(tools[i].operation.field.type)
    /\ outputSchema(tools[i], outputSelectionSchemas).default
         = createDefaultSelection(tools[i].operation.field.type)
    /\ (Executing /\ call.tool = i) =>
         call.result =
           execution(tools[i].operation, call.variables, call.selection,
                     tools[i].name :> OwnArgumentValidator(tools[i].operation))

\* C24: every tool validates variables against the argument validator
\* compiled from its own operation's declared arguments and exposes the
\* selection validator derived from its own operation's return type, also
\* when two extracted operations of different kinds have the same tool name.
C24_OwnValidators ==
    \A i \in DOMAIN tools : OwnValidators(i)

\* the same for the tools whose name no other tool has
C24_OwnValidatorsUniqueNames ==
    \A i \in DOMAIN tools :
      (\A j \in DOMAIN tools : tools[j].name = tools[i].name => j = i)
        => OwnValidators(i)

\* Query.user(id: ID!) and Subscription.user(id: Int!, limit: Int), no
\* prefixes: the tool of the query, called with { id: "123" }, is rejected by
\* the validator of the subscription's arguments
C24_Witness ==
    /\ Executing
    /\ CalledOperation.type = "query"
    /\ CalledOperation.name = "user"
    /\ \E j \in DOMAIN tools :
         /\ tools[j].name = "user"
         /\ tools[j].operation.type = "subscription"
    /\ call.variables = Obj1("id", JStr("123"))
    /\ parse(OwnArgumentValidator(CalledOperation), call.variables).ok
    /\ call.result = Thrown("Invalid type for variable", "id")

\* and called with { id: 123 }, which its own validator rejects, it returns
\* the query of the query
C24_WitnessAccepted ==
    /\ Executing
    /\ CalledOperation.type = "query"
    /\ CalledOperation.name = "user"
    /\ call.variables = Obj1("id", JInt(123))
    /\ call.selection = Obj1("id", JTrue)
    /\ ~parse(OwnArgumentValidator(CalledOperation), call.variables).ok
    /\ call.result.ok
    /\ Flatten(call.result.value.query)
         = "query user($id: ID!) { user(id: $id) { id } }"

(***************************************************************************)
(* Properties of the reported error, checked under ExecutionSpec           *)
(***************************************************************************)
\* the issues of the argument validation of the call in progress
CalledIssues ==
    parse(inputSchema(tools[call.tool], validationSchemas),
          CalledVariables).issues

MissingIssues ==
    {i \in DOMAIN CalledIssues :
       /\ CalledIssues[i].code = "invalid_type"
       /\ CalledIssues[i].received = "undefined"}

MismatchIssues ==
    {i \in DOMAIN CalledIssues :
       /\ CalledIssues[i].code = "invalid_type"
       /\ CalledIssues[i].received # "undefined"}

Least(S) == CHOOSE i \in S : \A j \in S : i <= j

ArgumentNames(operation) ==
    {operation.args[i].name : i \in DOMAIN operation.args}

C25_WitnessMismatch ==
    /\ Executing
    /\ CalledOperation.name = "searchUsers"
    /\ call.variables = Obj2("limit", JStr("five"), "query", JInt(1))
    /\ MissingIssues = {}
    /\ MismatchIssues = {1, 2}
    /\ call.result = Thrown("Invalid type for variable", "query")

(***************************************************************************)
(* Properties of the validator of no arguments, checked under ArgumentSpec *)
(***************************************************************************)
\* the argument validator of an operation without arguments is called with
\* a mapping
ValidatingNoArguments ==
    /\ ValidatingArguments
    /\ Len(CompiledOperation(call.name).args) = 0
    /\ call.variables.t = "object"

\* C26 as stated: the argument validator of an operation with zero arguments
\* accepts the empty mapping and rejects every mapping that has at least one
\* key.
C26_KeysRejected ==
    ValidatingNoArguments =>
      (call.result.ok <=> call.variables = EmptyObj)

\* C26: the argument validator of an operation with zero arguments accepts
\* the empty mapping, and it accepts every mapping that has keys and returns
\* it empty.
C26_KeysStripped ==
    ValidatingNoArguments => call.result = Returned(EmptyObj)

\* users, which has no arguments, validated with {} and with { limit: 5 }
C26_Witness ==
    /\ ValidatingNoArguments
    /\ call.name = "users"
    /\ call.variables = Obj1("limit", JInt(5))
    /\ call.result = Returned(EmptyObj)

C26_WitnessEmpty ==
    /\ ValidatingNoArguments
    /\ call.name = "users"
    /\ call.variables = EmptyObj
    /\ call.result = Returned(EmptyObj)

(***************************************************************************)
(* The field list read back, checked under RenderSpec                      *)
(***************************************************************************)
RECURSIVE IsSelectionTree(_)
\* a non-empty mapping made of true leaves and selection trees
IsSelectionTree(value) ==
    /\ value.t = "object"
    /\ value # EmptyObj
    /\ \A i \in DOMAIN value.o :
         value.o[i][2] = JTrue \/ IsSelectionTree(value.o[i][2])

\* the keys among the selections that are no GraphQL names
NonNames == {"id name"}

RECURSIVE HasNameKeys(_)
\* every key of the tree, at every level, is a GraphQL name
HasNameKeys(value) ==
    value.t = "object" =>
      \A i \in DOMAIN value.o :
        value.o[i][1] \notin NonNames /\ HasNameKeys(value.o[i][2])

\* the words a reader of the string finds in one piece of a text
Words(piece) ==
    CASE piece = " " -> <<>>
      [] piece = "id name" -> <<"id", "name">>
      [] OTHER -> <<piece>>

RECURSIVE WordsOf(_)
WordsOf(text) ==
    IF text = <<>> THEN <<>> ELSE Words(Head(text)) \o WordsOf(Tail(text))

RECURSIVE ParseFieldList(_, _, _)
\* the field list read back from position pos up to the closing brace: a
\* bare name is true, name { ... } a nested mapping, ... on K { ... } a
\* nested mapping under K
ParseFieldList(words, pos, entries) ==
    IF pos > Len(words) \/ words[pos] = "}"
    THEN [entries |-> entries, next |-> pos]
    ELSE IF /\ words[pos] = "..."
            /\ pos + 3 <= Len(words)
            /\ words[pos + 1] = "on"
            /\ words[pos + 3] = "{"
    THEN LET inner == ParseFieldList(words, pos + 4, <<>>)
         IN  ParseFieldList(words, inner.next + 1,
                            SetEntry(entries, words[pos + 2],
                                     JObj(inner.entries)))
    ELSE IF pos + 1 <= Len(words) /\ words[pos + 1] = "{"
    THEN LET inner == ParseFieldList(words, pos + 2, <<>>)
         IN  ParseFieldList(words, inner.next + 1,
                            SetEntry(entries, words[pos],
                                     JObj(inner.entries)))
    ELSE ParseFieldList(words, pos + 1, SetEntry(entries, words[pos], JTrue))

ParseSelection(text) == JObj(ParseFieldList(WordsOf(text), 1, <<>>).entries)

\* the selection trees the renderer is given, and the trees nested in them
SelectionTrees ==
    UNION { {t \in Mappings(s) : IsSelectionTree(t)}
            : s \in {r \in RenderSelections : IsSelectionTree(r)} }

\* the rendering of the tree, read back, renders to the same string, and no
\* other tree renders to that string
ReadsBackAlone(tree) ==
    LET fields == buildFieldSelectionString(tree)
    IN  /\ Flatten(buildFieldSelectionString(ParseSelection(fields)))
             = Flatten(fields)
        /\ \A other \in SelectionTrees :
             other # tree =>
               Flatten(buildFieldSelectionString(other)) # Flatten(fields)

\* a selection tree was rendered into the query
RenderedTree ==
    /\ Rendered
    /\ IsSelectionTree(call.selection)
    /\ Occurs(buildFieldSelectionString(call.selection), call.result.value)

\* C27 as stated: for every selection tree made only of true leaves and
\* non-empty nested mappings, the rendered field list read back renders to
\* the identical string, and no other such tree renders to that string.
C27_ReadsBackAnyKeys ==
    (Rendered /\ IsSelectionTree(call.selection)) =>
      ReadsBackAlone(call.selection)

\* C27: for every selection tree made only of true leaves and non-empty
\* nested mappings whose keys are GraphQL names, the rendered field list read
\* back is the tree itself and renders to the identical string, and no other
\* such tree with names for keys, differing in structure or key order,
\* renders to that string.
C27_ReadsBackNames ==
    (Rendered /\ IsSelectionTree(call.selection)
       /\ HasNameKeys(call.selection)) =>
      LET fields == buildFieldSelectionString(call.selection)
      IN  /\ Occurs(fields, call.result.value)
          /\ ParseSelection(fields) = call.selection
          /\ Flatten(buildFieldSelectionString(ParseSelection(fields)))
               = Flatten(fields)
          /\ \A other \in SelectionTrees :
               (HasNameKeys(other) /\ other # call.selection) =>
                 Flatten(buildFieldSelectionString(other)) # Flatten(fields)

\* a tree with a nested mapping, an inline fragment inside it and two keys
\* at one level is rendered, and so is the tree with two keys whose other
\* order is a tree too
C27_Witness ==
    /\ RenderedTree
    /\ call.selection
         = Obj1("posts", Obj2("title", JTrue, "Dog", Obj1("breed", JTrue)))
    /\ Flatten(buildFieldSelectionString(call.selection))
         = "posts { title ... on Dog { breed } }"
    /\ ParseSelection(buildFieldSelectionString(call.selection))
         = call.selection

C27_WitnessOrder ==
    /\ RenderedTree
    /\ call.selection = Obj2("name", JTrue, "id", JTrue)
    /\ Obj2("id", JTrue, "name", JTrue) \in SelectionTrees
    /\ Flatten(buildFieldSelectionString(call.selection)) = "name id"

\* { "id name": true } renders to the string of { id: true, name: true }
C27_WitnessNonName ==
    /\ RenderedTree
    /\ call.selection = Obj1("id name", JTrue)
    /\ Flatten(buildFieldSelectionString(call.selection))
         = Flatten(buildFieldSelectionString(Obj2("id", JTrue, "name", JTrue)))

(***************************************************************************)
(* Properties of the cached input types, checked under CompileSpec         *)
(***************************************************************************)
InputTypeNames ==
    {n \in DOMAIN SchemaTypes : SchemaTypes[n].kind \in {"ENUM", "INPUT_OBJECT"}}

CacheKeyOf(n) == InputCacheKey(Named(n))

\* the depths at which a reference to a type is taken
MaxReferenceDepth == 2

\* a reference to the type named n at a depth, under the configuration in
\* force and on the cache as it is
Reference(n, depth) ==
    graphqlTypeToZodSchema(Named(n), {}, depth, validationOptions(config),
                           typeSchemaCache)

\* the entries of the input-object and enum types in old are in new as they
\* were
InputEntriesKept(old, new) ==
    \A n \in InputTypeNames :
      CacheKeyOf(n) \in DOMAIN old =>
        /\ CacheKeyOf(n) \in DOMAIN new
        /\ new[CacheKeyOf(n)] = old[CacheKeyOf(n)]

\* a reference keeps the written entries; one to a name not yet compiled
\* compiles it and writes the entry it returns
CompilesOnce(n, depth) ==
    /\ InputEntriesKept(typeSchemaCache, Reference(n, depth).cache)
    /\ (CacheKeyOf(n) \notin DOMAIN typeSchemaCache
          /\ Within(depth, validationOptions(config))) =>
         /\ CacheKeyOf(n) \in DOMAIN Reference(n, depth).cache
         /\ Reference(n, depth).cache[CacheKeyOf(n)]
              = Reference(n, depth).schema

\* a reference to a compiled name returns its entry and compiles nothing
ReturnsEntry(n, depth) ==
    CacheKeyOf(n) \in DOMAIN typeSchemaCache =>
      /\ Reference(n, depth).schema = typeSchemaCache[CacheKeyOf(n)]
      /\ Reference(n, depth).cache = typeSchemaCache

\* no call but clearTypeSchemaCache overwrites or removes a written entry
EntriesOutliveCalls ==
    [][ (call'.op # "clearTypeSchemaCache") =>
          InputEntriesKept(typeSchemaCache, typeSchemaCache') ]_vars

\* C28 as stated: between two calls of clearTypeSchemaCache each
\* input-object and enum type name is compiled at most once: the first
\* completed compilation writes its cache entry, every later reference to
\* that name returns that same entry, and a written entry is never
\* overwritten or removed.
C28_CompiledOnce ==
    /\ [](\A n \in InputTypeNames : \A depth \in 0..MaxReferenceDepth :
            CompilesOnce(n, depth) /\ ReturnsEntry(n, depth))
    /\ EntriesOutliveCalls

\* C28: between two calls of clearTypeSchemaCache each input-object and enum
\* type name is compiled at most once: the first completed compilation
\* writes its cache entry, every later reference to that name that lies
\* within maxSchemaDepth returns that same entry, and a written entry is
\* never overwritten or removed.
C28_CompiledOnceWithinDepth ==
    /\ [](\A n \in InputTypeNames : \A depth \in 0..MaxReferenceDepth :
            /\ CompilesOnce(n, depth)
            /\ Within(depth, validationOptions(config)) =>
                 ReturnsEntry(n, depth))
    /\ EntriesOutliveCalls

\* the mutations compiled with maxSchemaDepth 1 after the subscriptions:
\* Status and Filter have their entries from the earlier call, a reference
\* to Status at depth 1 returns the entry, and UserInput, compiled now, has
\* the placeholder at role: Status, a reference at depth 2
C28_Witness ==
    /\ Compiled
    /\ config.mutation = "true"
    /\ config.subscription = "false"
    /\ config.maxSchemaDepth = 1
    /\ {CacheKeyOf("Status"), CacheKeyOf("Filter"), CacheKeyOf("UserInput")}
         \subseteq DOMAIN typeSchemaCache
    /\ typeSchemaCache[CacheKeyOf("Status")] = ZEnum(<<"DRAFT", "PUBLISHED">>)
    /\ Reference("Status", 1).schema = typeSchemaCache[CacheKeyOf("Status")]
    /\ Reference("Status", 1).cache = typeSchemaCache
    /\ ShapeEntry(typeSchemaCache[CacheKeyOf("UserInput")].shape, "role")
         = ZOptional(DepthPlaceholder)
    /\ Reference("Status", 2).schema = DepthPlaceholder

(***************************************************************************)
(* Properties of the returned variables, checked under CapSpec             *)
(***************************************************************************)
\* the keys of the argument object the tool called validates with
CompiledArgumentKeys ==
    ShapeKeys(inputSchema(tools[call.tool], validationSchemas).shape)

\* the call returned; its variables are the ones the renderer was given
Executed == Executing /\ call.result.ok

\* the returned variables have only keys of the compiled argument object,
\* every other key the caller gave is dropped, and the renderer warns about
\* none
OnlyCompiledKeys ==
    /\ Range(ObjectKeys(call.result.value.variables))
         = Range(ObjectKeys(CalledVariables)) \cap CompiledArgumentKeys
    /\ unusedVariables(CalledOperation, call.result.value.variables) = {}

\* C29: the variables object returned by a successful execution contains
\* only keys of the operation's compiled argument object: any other key the
\* caller supplied is dropped rather than rejected, so it is neither returned
\* nor seen by the renderer, whose unused-variable warning cannot be
\* triggered through execution.
C29_OnlyCompiledKeys ==
    Executed => OnlyCompiledKeys

\* the same for the tools whose name no other tool has
C29_OnlyCompiledKeysUniqueNames ==
    ( /\ Executed
      /\ \A j \in DOMAIN tools :
           tools[j].name = CalledOperation.name => j = call.tool )
      => OnlyCompiledKeys

\* Query.user(id: ID!) and Subscription.user(id: Int!, limit: Int) under one
\* name: the tool of the query, called with { id: 123, limit: 5 }, returns
\* both keys, and the renderer is given limit, which the query does not
\* declare
C29_Witness ==
    /\ Executed
    /\ CalledOperation.type = "query"
    /\ CalledOperation.name = "user"
    /\ call.variables = Obj2("id", JInt(123), "limit", JInt(5))
    /\ call.result.value.variables = call.variables
    /\ unusedVariables(CalledOperation, call.result.value.variables)
         = {"limit"}

\* under maxOperationArgs 1 the tool of the subscription, called with the
\* same variables, returns id alone: limit is dropped, not rejected
C29_WitnessDropped ==
    /\ Executed
    /\ CalledOperation.name = "user"
    /\ CalledOperation.type = "subscription"
    /\ call.variables = Obj2("id", JInt(123), "limit", JInt(5))
    /\ config.maxOperationArgs = 1
    /\ call.result.value.variables = Obj1("id", JInt(123))

(***************************************************************************)
(* The default selection validated again, checked under SelectionSpec      *)
(***************************************************************************)
\* validate({}) succeeded for a compiled operation
DefaultReturned ==
    /\ Validating
    /\ call.selection = EmptyObj
    /\ call.result.ok

\* validate(validate({}))
DefaultValidatedAgain ==
    validateOutputSelection(call.name, call.result.value,
                            outputSelectionSchemas)

\* C30: for every operation every key of its default selection is a key its
\* own selection validator accepts, so validating the default selection
\* succeeds and returns it unchanged: validate(validate({})) = validate({}),
\* also for types with more fields than the per-type field limit.
C30_DefaultSelectionValid ==
    DefaultReturned =>
      /\ call.result.value
           = createDefaultSelection(CompiledOperation(call.name).field.type)
      /\ Range(ObjectKeys(call.result.value))
           \subseteq TopLevelKeys(outputSelectionSchemas[call.name])
      /\ DefaultValidatedAgain = call.result

\* the same where every type has all its fields in its validator: compiled
\* on a cleared cache with no limit on the fields
C30_DefaultSelectionValidUncapped ==
    (DefaultReturned /\ FreshlyCompiled /\ config.maxFields \in {0, 100}) =>
      DefaultValidatedAgain = call.result

\* user: User under maxFields 5: the default selection has nick, the eighth
\* field of User, the validator has the first five fields, and the default
\* selection is rejected
C30_Witness ==
    /\ DefaultReturned
    /\ call.name = "user"
    /\ config.maxFields = 5
    /\ call.result.value
         = JObj(<< <<"id", JTrue>>, <<"name", JTrue>>, <<"role", JTrue>>,
                   <<"tags", JTrue>>, <<"nick", JTrue>> >>)
    /\ TopLevelKeys(outputSelectionSchemas[call.name])
         = {"id", "name", "role", "tags", "posts"}
    /\ DefaultValidatedAgain
         = Thrown("Output selection validation failed for", "user")

\* under the default limits the default selection of user is returned
\* unchanged when validated again
C30_WitnessUncapped ==
    /\ DefaultReturned
    /\ FreshlyCompiled
    /\ config = defaultConfig
    /\ call.name = "user"
    /\ Len(ObjectKeys(call.result.value)) = 5
    /\ DefaultValidatedAgain = call.result

====
